---- MODULE Spec2Model ----
(***************************************************************************)
(* AutoRegistrationParallel (src/auto_v2.py): the "1 captcha -> fan-out"   *)
(* registration core.  The module models the session pool, the captcha     *)
(* lifecycle, the chunked fan-out of register_batch_with_shared_captcha,   *)
(* the retry loop of register_all_profiles_parallel, the tracking store    *)
(* and the outer loop of run_registration_algorithm.                       *)
(*                                                                         *)
(* Profiles are identified by their profile_name (an integer here), pairs  *)
(* are <<idNgayBanHang, idPhien>>, a session handle is an integer object   *)
(* identity, a captcha is the ordinal of the fetch that produced it within *)
(* the current call of register_all_profiles_parallel (0: none yet).       *)
(* A local variable that the code no longer reads is set back to its       *)
(* initial value.                                                          *)
(***************************************************************************)
EXTENDS Integers, Sequences, FiniteSets, TLC

\* ---------------------------------------------------------------- bounds
MaxRounds == 2      \* retry rounds explored per call of register_all_profiles_parallel
MaxIter == 2        \* iterations ("VONG") of the outer while True explored
MaxTime == 60       \* wall-clock horizon, seconds
MaxPoolProfiles == 13    \* longest profile list of the pool specification
MaxPoolChunks == 2       \* chunks submitted in the pool specification
\* failed attempts of one get_fresh_captcha call that are followed
MaxAttempts == 2
MaxCapIdle == 2          \* idle sessions up to which other callers release
MaxChunkLen == 20       \* longest profile list of the chunking specification
MaxChunkWorkers == 8    \* largest max_workers of the chunking specification

\* ------------------------------------------------------ program constants
SoftMargin == 8     \* max_pool_size = max_workers + 8
HardMargin == 16    \* hard_cap = max_workers + 16
PoolReserve == 5    \* pool_size = max(max_workers, len(profiles) + 5)
CAPTCHA_TTL == 60   \* ttl_seconds of the round-head check
SAFETY_TTL == 55    \* ttl_seconds of the per-chunk check
DefaultOffset == 3  \* run(fetch_captcha_offset=3)
LogQueueSize == 10000   \* queue.Queue(maxsize=10000)

\* ------------------------------------------------------------ inputs
\* profiles.json after load_profiles: profile_name is not checked for uniqueness
ProfileLists == { <<1, 2, 3>>, <<1, 2, 1>> }
\* scan_results.json after load_scan_results (odd sessions)
PhienLists == { << <<67, 101>> >> }
\* max_workers: one worker here, so a round of three profiles has three chunks;
\* workers running side by side on the pool are explored in SpecPool
WorkerChoices == { 1 }

VARIABLES
    profiles,            \* self.profiles
    phien_data,          \* self.phien_data
    max_workers,         \* self.max_workers
    stop_event,          \* self.stop_event
    slot_full_pairs,     \* self.slot_full_pairs
    already_registered_profiles,   \* self.already_registered_profiles
    profile_successful_pairs,      \* self.profile_successful_pairs
    successful_pairs_set,          \* self.successful_pairs_set
    session_pool,        \* self.session_pool (deque, head first)
    inflight_sessions,   \* self.inflight_sessions
    next_session,        \* identity of the next requests.Session created
    now,                 \* time.time(), whole seconds
    now_us,              \* time.time(), microseconds past the second
    pc,                  \* position of the main thread
    iteration,           \* run_registration_algorithm: iteration
    pair_idx,            \* run_registration_algorithm: i (1-based)
    results,             \* run_registration_algorithm: results of the last call
    date_id,             \* register_all_profiles_parallel: date_id
    session_id,          \* register_all_profiles_parallel: session_id
    eligible_profiles,   \* register_all_profiles_parallel locals ...
    pending_profiles,
    final_results,
    retry_round,
    captcha_text,
    captcha_timestamp,
    captcha_session,     \* handle held by the main thread (0: none)
    main_pos,            \* position of the main thread inside get_session_from_pool
    fetch_site,          \* which of the three get_fresh_captcha calls is running
    captcha_error_profiles,
    next_pending,
    chunks,              \* register_batch_with_shared_captcha locals ...
    chunk_idx,
    batch_results,
    tasks,               \* futures of the chunk in flight (future_to_profile)
    prev_round,          \* history: credential and outcomes of the round evaluated last
    only_success,        \* history: every request of this call was answered SUCCESS
    stale_captchas,      \* history: captchas of this call found 60s old at a while head
    deadline,            \* run(target_time), seconds on the clock (0: no target_time)
    fetch_captcha_offset,  \* run(fetch_captcha_offset)
    attempt,             \* get_fresh_captcha: attempt
    captcha_len,         \* len(captcha_text) of the captcha held
    log_queue,           \* self.log_queue: number of entries queued
    logger_thread        \* self.logger_thread: "running" or "stopped"

vars == << profiles, phien_data, max_workers, stop_event, slot_full_pairs,
           already_registered_profiles, profile_successful_pairs,
           successful_pairs_set, session_pool, inflight_sessions, next_session,
           now, now_us, pc, iteration, pair_idx, results, date_id, session_id,
           eligible_profiles, pending_profiles, final_results, retry_round,
           captcha_text, captcha_timestamp, captcha_session, main_pos, fetch_site,
           captcha_error_profiles, next_pending, chunks, chunk_idx, batch_results,
           tasks, prev_round, only_success, stale_captchas, deadline,
           fetch_captcha_offset, attempt, captcha_len, log_queue, logger_thread >>

trackingVars == << slot_full_pairs, already_registered_profiles,
                   profile_successful_pairs, successful_pairs_set >>
poolVars == << session_pool, inflight_sessions, next_session >>
inputVars == << profiles, phien_data, max_workers, deadline, fetch_captcha_offset >>
logVars == << log_queue, logger_thread >>
outerVars == << iteration, pair_idx, results >>
batchVars == << chunks, chunk_idx, batch_results >>
\* locals of register_all_profiles_parallel that are dead once it has returned
frameVars == << final_results, retry_round, captcha_text, captcha_timestamp, attempt,
                captcha_len, main_pos,
                fetch_site, captcha_error_profiles, next_pending, chunks, chunk_idx,
                batch_results >>
\* what stays readable of a call after it has returned
callVars == << date_id, session_id, eligible_profiles, pending_profiles >>
historyVars == << prev_round, only_success, stale_captchas >>

\* ------------------------------------------------------------ helpers
Min(a, b) == IF a < b THEN a ELSE b
Max(a, b) == IF a > b THEN a ELSE b
Range(s) == { s[k] : k \in DOMAIN s }

\* a Python dict: a function whose domain is the set of keys present
EmptyDict == << >>
DictSet(f, k, v) == (k :> v) @@ f
DictGet(f, k, default) == IF k \in DOMAIN f THEN f[k] ELSE default

\* prev_round: the captcha the round used, the profiles answered CAPTCHA_ERROR,
\* whether a chunk was skipped as expired, the profiles answered SLOT_FULL, and
\* the profiles whose outcome was not final
NoPrevRound == [cred |-> 0, captcha |-> {}, expired |-> FALSE, slot_full |-> {},
                retry |-> {}]
FinalTags == {"SUCCESS", "SLOT_FULL", "ALREADY_REGISTERED"}

\* ------------------------------------------------------------ session pool
max_pool_size(w) == w + SoftMargin
\* variant: the hard cap has no margin above the worker count
hard_cap_NoMargin(w) == w
hard_cap(w) == w + HardMargin

\* init_session_pool(pool_size): pool_size fresh sessions, identities 1..pool_size
init_session_pool(pool_size) == [k \in 1..pool_size |-> k]

\* run(): pool_size = max(self.max_workers, len(self.profiles) + 5)
run_pool_size(w, ps) == Max(w, Len(ps) + PoolReserve)

\* variant: the loop has no stop_event branch
get_session_from_pool_NoBypass(pos, pool, inflight, nxt, cap, stop) ==
    CASE pos = "pool_check" ->
            IF pool # << >>
            THEN [pos |-> "got", session |-> Head(pool), pool |-> Tail(pool),
                  inflight |-> inflight + 1, next |-> nxt]
            ELSE [pos |-> "cap_check", session |-> 0, pool |-> pool,
                  inflight |-> inflight, next |-> nxt]
      [] pos = "cap_check" ->
            IF Len(pool) + inflight < cap
            THEN [pos |-> "got", session |-> nxt, pool |-> pool,
                  inflight |-> inflight + 1, next |-> nxt + 1]
            ELSE [pos |-> "stop_check", session |-> 0, pool |-> pool,
                  inflight |-> inflight, next |-> nxt]
      [] OTHER ->
            [pos |-> "cap_check", session |-> 0, pool |-> pool,
             inflight |-> inflight, next |-> nxt]

\* variant: the first locked block hands out the head of the pool and leaves it
\* in the pool
get_session_from_pool_NoPop(pos, pool, inflight, nxt, cap, stop) ==
    CASE pos = "pool_check" ->
            IF pool # << >>
            THEN [pos |-> "got", session |-> Head(pool), pool |-> pool,
                  inflight |-> inflight + 1, next |-> nxt]
            ELSE [pos |-> "cap_check", session |-> 0, pool |-> pool,
                  inflight |-> inflight, next |-> nxt]
      [] pos = "cap_check" ->
            IF Len(pool) + inflight < cap
            THEN [pos |-> "got", session |-> nxt, pool |-> pool,
                  inflight |-> inflight + 1, next |-> nxt + 1]
            ELSE [pos |-> "stop_check", session |-> 0, pool |-> pool,
                  inflight |-> inflight, next |-> nxt]
      [] OTHER ->
            IF stop
            THEN [pos |-> "got", session |-> nxt, pool |-> pool,
                  inflight |-> inflight + 1, next |-> nxt + 1]
            ELSE [pos |-> "cap_check", session |-> 0, pool |-> pool,
                  inflight |-> inflight, next |-> nxt]

\* One lock-delimited step of get_session_from_pool for a thread at position pos:
\*   pool_check: the first "with self.session_lock" block (pop if the pool is not empty)
\*   cap_check : the locked block of the while loop (create when under the hard cap)
\*   stop_check: the unlocked stop_event test (create anyway) followed by the 5ms sleep
\* The result gives the thread's next position ("got": returned), the handle it
\* returns and the pool state it leaves.
get_session_from_pool(pos, pool, inflight, nxt, cap, stop) ==
    CASE pos = "pool_check" ->
            IF pool # << >>
            THEN [pos |-> "got", session |-> Head(pool), pool |-> Tail(pool),
                  inflight |-> inflight + 1, next |-> nxt]
            ELSE [pos |-> "cap_check", session |-> 0, pool |-> pool,
                  inflight |-> inflight, next |-> nxt]
      [] pos = "cap_check" ->
            IF Len(pool) + inflight < cap
            THEN [pos |-> "got", session |-> nxt, pool |-> pool,
                  inflight |-> inflight + 1, next |-> nxt + 1]
            ELSE [pos |-> "stop_check", session |-> 0, pool |-> pool,
                  inflight |-> inflight, next |-> nxt]
      [] OTHER ->
            IF stop
            THEN [pos |-> "got", session |-> nxt, pool |-> pool,
                  inflight |-> inflight + 1, next |-> nxt + 1]
            ELSE [pos |-> "cap_check", session |-> 0, pool |-> pool,
                  inflight |-> inflight, next |-> nxt]

\* return_session_to_pool: one locked block
return_session_to_pool(session, pool, inflight, softcap) ==
    [pool |-> IF Len(pool) < softcap THEN Append(pool, session) ELSE pool,
     inflight |-> inflight - 1]

\* ------------------------------------------------------------ captcha
\* variant: a captcha exactly ttl_seconds old still counts as valid
is_captcha_valid_Inclusive(captcha_ts, ttl_seconds, t) == (t - captcha_ts) <= ttl_seconds

\* is_captcha_valid, with the reading of time.time() passed as t
is_captcha_valid(captcha_ts, ttl_seconds, t) == (t - captcha_ts) < ttl_seconds

\* the instants at which a captcha stamped captcha_ts stops passing the two checks
ClockThresholds(captcha_ts) == { captcha_ts + SAFETY_TTL, captcha_ts + CAPTCHA_TTL }

\* ------------------------------------------------------------ tracking store
mark_slot_full(pairs, d, s) == pairs \cup { <<d, s>> }
\* variant: the exhausted set is never consulted
slot_full_in_Never(pairs, d, s) == FALSE

\* is_slot_full against a given value of self.slot_full_pairs
slot_full_in(pairs, d, s) == <<d, s>> \in pairs
is_slot_full(d, s) == slot_full_in(slot_full_pairs, d, s)

mark_profile_already_registered(reg, p, d) ==
    DictSet(reg, p, DictGet(reg, p, {}) \cup {d})
is_profile_already_registered_for_date(p, d) ==
    p \in DOMAIN already_registered_profiles /\ d \in already_registered_profiles[p]

\* variant: the per-profile index is left as it is
mark_profile_successful_pairs_Skipped(byprofile, p, d, s) == byprofile

mark_profile_successful_pairs(byprofile, p, d, s) ==
    DictSet(byprofile, p, DictGet(byprofile, p, {}) \cup { <<d, s>> })
mark_profile_successful_set(flat, p, d, s) == flat \cup { <<p, d, s>> }
is_profile_successful(p, d, s) == <<p, d, s>> \in successful_pairs_set

\* variant: the date of an earlier success is not looked at
can_profile_register_AnyDate(p, d, s) ==
    /\ ~ is_profile_successful(p, d, s)
    /\ ~ is_slot_full(d, s)

can_profile_register(p, d, s) ==
    /\ ~ is_profile_successful(p, d, s)
    /\ ~ is_profile_already_registered_for_date(p, d)
    /\ ~ is_slot_full(d, s)

\* the eligibility loop of register_all_profiles_parallel
EligibleProfiles(ps, d, s) == SelectSeq(ps, LAMBDA p : can_profile_register(p, d, s))

\* ------------------------------------------------------------ dispatcher
\* variant: every slice is one element short (profiles[i:i + W - 1])
Chunks_ShortSlice(ps, w) ==
    IF Len(ps) > w
    THEN [k \in 1..((Len(ps) + w - 1) \div w) |->
              SubSeq(ps, (k - 1) * w + 1, Min(k * w, Len(ps)) - 1)]
    ELSE << ps >>

\* chunks = [profiles[i:i + W] for i in range(0, len(profiles), W)] if len > W else [profiles]
Chunks(ps, w) ==
    IF Len(ps) > w
    THEN [k \in 1..((Len(ps) + w - 1) \div w) |->
              SubSeq(ps, (k - 1) * w + 1, Min(k * w, Len(ps)))]
    ELSE << ps >>

\* ------------------------------------------------------------ responses
\* A response body is described by what classify_error looks at: whether it is
\* empty, and which of its indicator lists have a match in the lower-cased text.
Body(marks) == [empty |-> FALSE, marks |-> marks]
EmptyBody == [empty |-> TRUE, marks |-> {}]

\* variant: the already-registered indicators are looked for before the
\* slot-full indicators
classify_error_RegisteredFirst(body, status_code) ==
    IF body.empty THEN "EMPTY_RESPONSE"
    ELSE IF "success" \in body.marks THEN "SUCCESS"
    ELSE IF "captcha_error" \in body.marks THEN "CAPTCHA_ERROR"
    ELSE IF "already_registered" \in body.marks THEN "ALREADY_REGISTERED"
    ELSE IF "slot_full" \in body.marks THEN "SLOT_FULL"
    ELSE IF "server_error" \in body.marks THEN "SERVER_ERROR"
    ELSE IF "server_closed" \in body.marks THEN "SERVER_CLOSED"
    ELSE IF "connection_error" \in body.marks THEN "CONNECTION_ERROR"
    ELSE "UNKNOWN_ERROR"

\* classify_error: the chain of "any(indicator in response_lower ...)" tests;
\* status_code is a parameter the function never reads
classify_error(body, status_code) ==
    IF body.empty THEN "EMPTY_RESPONSE"
    ELSE IF "success" \in body.marks THEN "SUCCESS"
    ELSE IF "captcha_error" \in body.marks THEN "CAPTCHA_ERROR"
    ELSE IF "slot_full" \in body.marks THEN "SLOT_FULL"
    ELSE IF "already_registered" \in body.marks THEN "ALREADY_REGISTERED"
    ELSE IF "server_error" \in body.marks THEN "SERVER_ERROR"
    ELSE IF "server_closed" \in body.marks THEN "SERVER_CLOSED"
    ELSE IF "connection_error" \in body.marks THEN "CONNECTION_ERROR"
    ELSE "UNKNOWN_ERROR"

Http(status, body) == [kind |-> "http", status |-> status, body |-> body]
RequestTimeout == [kind |-> "timeout", status |-> 0, body |-> EmptyBody]
RequestError == [kind |-> "error", status |-> 0, body |-> EmptyBody]
\* no response yet
NoResponse == [kind |-> "none", status |-> 0, body |-> EmptyBody]

\* what session.get of register_single_attempt may produce
TaskResponses ==
    { Http(200, Body({"success"})), Http(200, Body({"captcha_error"})),
      Http(200, Body({"slot_full"})), Http(200, Body({"already_registered"})),
      RequestTimeout, RequestError }

Outcome(success, error_type) == [success |-> success, error_type |-> error_type]

\* variant: the body is classified first, the status is looked at only when the
\* body gives no SUCCESS
AttemptResult_BodyFirst(resp) ==
    CASE resp.kind = "timeout" -> Outcome(FALSE, "TIMEOUT")
      [] resp.kind = "error" -> Outcome(FALSE, "EXCEPTION")
      [] OTHER ->
            LET error_type == classify_error(resp.body, resp.status)
            IN  IF error_type = "SUCCESS" THEN Outcome(TRUE, "SUCCESS")
                ELSE IF resp.status = 503 THEN Outcome(FALSE, "SERVER_503")
                ELSE IF resp.status = 500 THEN Outcome(FALSE, "SERVER_500")
                ELSE IF resp.status # 200 THEN Outcome(FALSE, "HTTP_ERROR")
                ELSE Outcome(FALSE, error_type)

\* the try block of register_single_attempt: the value it returns for a response
AttemptResult(resp) ==
    CASE resp.kind = "timeout" -> Outcome(FALSE, "TIMEOUT")
      [] resp.kind = "error" -> Outcome(FALSE, "EXCEPTION")
      [] OTHER ->
            IF resp.status = 503 THEN Outcome(FALSE, "SERVER_503")
            ELSE IF resp.status = 500 THEN Outcome(FALSE, "SERVER_500")
            ELSE IF resp.status # 200 THEN Outcome(FALSE, "HTTP_ERROR")
            ELSE LET error_type == classify_error(resp.body, resp.status)
                 IN  IF error_type = "SUCCESS" THEN Outcome(TRUE, "SUCCESS")
                     ELSE Outcome(FALSE, error_type)

\* variant: the session is returned at the end of the try block only, so not
\* when an exception handler produced the result
FinallyReturnsSession_NotOnException(error_type) ==
    error_type \notin {"TIMEOUT", "EXCEPTION"}

\* the finally clause of register_single_attempt runs on every exit of the try block
FinallyReturnsSession(error_type) == TRUE

NoResult == Outcome(FALSE, "NO_RESULT")
ExpiredResult == Outcome(FALSE, "CAPTCHA_EXPIRED")

\* a future of register_single_attempt(profile, date_id, session_id, captcha_text):
\* its arguments, the worker's position, the session it got, the session it gave
\* back, the response to its request, how it left the try block, and how often it
\* acquired and released
NewTask_OwnCaptcha(p, d, s, captcha) ==
    [profile |-> p, date_id |-> d, session_id |-> s, captcha |-> captcha + p,
     pos |-> "pool_check", session |-> 0, returned |-> 0, response |-> NoResponse,
     exit |-> "none", acquired |-> 0, released |-> 0]

NewTask(p, d, s, captcha) ==
    [profile |-> p, date_id |-> d, session_id |-> s, captcha |-> captcha,
     pos |-> "pool_check", session |-> 0, returned |-> 0, response |-> NoResponse,
     exit |-> "none", acquired |-> 0, released |-> 0]

\* variant: only the captcha-error profiles are carried into the next round
ExtendPending_OnlyCaptcha(np, cep) == cep

\* next_pending.extend(captcha_error_profiles)
ExtendPending(np, cep) == np \o cep

\* ------------------------------------------------------------ evaluation of a round
\* One iteration of "for profile in pending_profiles" (step 4 of the retry loop).
\* st carries the tracking store and the locals the loop updates.
EvalOutcome_Variant(st, p, d, s, res, keep_success, mark_success, mark_full) ==
    IF res.success
    THEN [st EXCEPT !.byprofile = mark_profile_successful_pairs(@, p, d, s),
                    !.flat = mark_profile_successful_set(@, p, d, s),
                    !.reg = mark_profile_already_registered(@, p, d),
                    !.final = IF mark_success THEN DictSet(@, p, TRUE) ELSE @,
                    !.np = IF keep_success THEN Append(@, p) ELSE @]
    ELSE CASE res.error_type = "CAPTCHA_ERROR" ->
                [st EXCEPT !.cep = Append(@, p)]
           [] res.error_type = "SLOT_FULL" ->
                [st EXCEPT !.slot = mark_slot_full(@, d, s),
                           !.final = IF mark_full THEN DictSet(@, p, FALSE) ELSE @]
           [] res.error_type = "ALREADY_REGISTERED" ->
                [st EXCEPT !.reg = mark_profile_already_registered(@, p, d),
                           !.final = DictSet(@, p, FALSE)]
           [] OTHER ->
                [st EXCEPT !.np = Append(@, p)]

\* variant: a profile that succeeded is also kept pending
EvalOutcome_SuccessStaysPending(st, p, d, s, res) ==
    EvalOutcome_Variant(st, p, d, s, res, TRUE, TRUE, TRUE)

\* variant: a success is tracked but not written to final_results
EvalOutcome_SuccessNotFinal(st, p, d, s, res) ==
    EvalOutcome_Variant(st, p, d, s, res, FALSE, FALSE, TRUE)

\* variant: the profile that found the slot full gets no final mark
EvalOutcome_SlotFullNotFinal(st, p, d, s, res) ==
    EvalOutcome_Variant(st, p, d, s, res, FALSE, TRUE, FALSE)

\* variant: an ALREADY_REGISTERED answer ends the retries without a record in
\* already_registered_profiles
EvalOutcome_RegisteredNotTracked(st, p, d, s, res) ==
    IF res.success
    THEN [st EXCEPT !.byprofile = mark_profile_successful_pairs(@, p, d, s),
                    !.flat = mark_profile_successful_set(@, p, d, s),
                    !.reg = mark_profile_already_registered(@, p, d),
                    !.final = DictSet(@, p, TRUE)]
    ELSE CASE res.error_type = "CAPTCHA_ERROR" ->
                [st EXCEPT !.cep = Append(@, p)]
           [] res.error_type = "SLOT_FULL" ->
                [st EXCEPT !.slot = mark_slot_full(@, d, s),
                           !.final = DictSet(@, p, FALSE)]
           [] res.error_type = "ALREADY_REGISTERED" ->
                [st EXCEPT !.final = DictSet(@, p, FALSE)]
           [] OTHER ->
                [st EXCEPT !.np = Append(@, p)]

\* variant: a profile with a server, connection or other retryable error is
\* not carried into the next round
EvalOutcome_ErrorsDropped(st, p, d, s, res) ==
    IF res.success
    THEN [st EXCEPT !.byprofile = mark_profile_successful_pairs(@, p, d, s),
                    !.flat = mark_profile_successful_set(@, p, d, s),
                    !.reg = mark_profile_already_registered(@, p, d),
                    !.final = DictSet(@, p, TRUE)]
    ELSE CASE res.error_type = "CAPTCHA_ERROR" ->
                [st EXCEPT !.cep = Append(@, p)]
           [] res.error_type = "SLOT_FULL" ->
                [st EXCEPT !.slot = mark_slot_full(@, d, s),
                           !.final = DictSet(@, p, FALSE)]
           [] res.error_type = "ALREADY_REGISTERED" ->
                [st EXCEPT !.reg = mark_profile_already_registered(@, p, d),
                           !.final = DictSet(@, p, FALSE)]
           [] OTHER -> st

EvalOutcome(st, p, d, s, res) ==
    IF res.success
    THEN [st EXCEPT !.byprofile = mark_profile_successful_pairs(@, p, d, s),
                    !.flat = mark_profile_successful_set(@, p, d, s),
                    !.reg = mark_profile_already_registered(@, p, d),
                    !.final = DictSet(@, p, TRUE)]
    ELSE CASE res.error_type = "CAPTCHA_ERROR" ->
                [st EXCEPT !.cep = Append(@, p)]
           [] res.error_type = "SLOT_FULL" ->
                [st EXCEPT !.slot = mark_slot_full(@, d, s),
                           !.final = DictSet(@, p, FALSE)]
           [] res.error_type = "ALREADY_REGISTERED" ->
                [st EXCEPT !.reg = mark_profile_already_registered(@, p, d),
                           !.final = DictSet(@, p, FALSE)]
           [] OTHER ->
                [st EXCEPT !.np = Append(@, p)]

\* variant: the loop is left at the first SLOT_FULL outcome
RECURSIVE EvalLoop_BreakAtSlotFull(_, _, _, _, _)
EvalLoop_BreakAtSlotFull(st, ps, d, s, br) ==
    IF ps = << >> THEN st
    ELSE LET res == DictGet(br, Head(ps), NoResult)
             nxt == EvalOutcome(st, Head(ps), d, s, res)
         IN  IF res.error_type = "SLOT_FULL" THEN nxt
             ELSE EvalLoop_BreakAtSlotFull(nxt, Tail(ps), d, s, br)

\* "for profile in pending_profiles" of step 4, over the results of the round
RECURSIVE EvalLoop(_, _, _, _, _)
EvalLoop(st, ps, d, s, br) ==
    IF ps = << >> THEN st
    ELSE EvalLoop(EvalOutcome(st, Head(ps), d, s, DictGet(br, Head(ps), NoResult)),
                  Tail(ps), d, s, br)

\* the error types batch_results holds for the profiles of ps
RoundTags(ps, br) == { DictGet(br, p, NoResult).error_type : p \in Range(ps) }

\* ------------------------------------------------------------ initial states
\* the locals of register_all_profiles_parallel and register_batch_with_shared_captcha
\* variant: the entry is queued whatever the queue holds
log_message_NoLimit(queue) == queue + 1

\* log_message: put_nowait on the bounded queue; queue.Full is swallowed and the
\* entry dropped
log_message(queue) == IF queue >= LogQueueSize THEN queue ELSE queue + 1

\* n calls of log_message in a row
RECURSIVE LogAll(_, _)
LogAll(queue, n) == IF n = 0 THEN queue ELSE LogAll(log_message(queue), n - 1)

\* outside a call
NoFrame ==
    /\ final_results = EmptyDict /\ retry_round = 0
    /\ captcha_text = 0 /\ captcha_timestamp = 0
    /\ attempt = 0 /\ captcha_len = 0
    /\ main_pos = "pool_check" /\ fetch_site = "initial"
    /\ captcha_error_profiles = << >> /\ next_pending = << >>
    /\ chunks = << >> /\ chunk_idx = 0 /\ batch_results = EmptyDict

ResetFrame ==
    /\ final_results' = EmptyDict /\ retry_round' = 0
    /\ captcha_text' = 0 /\ captcha_timestamp' = 0
    /\ attempt' = 0 /\ captcha_len' = 0
    /\ main_pos' = "pool_check" /\ fetch_site' = "initial"
    /\ captcha_error_profiles' = << >> /\ next_pending' = << >>
    /\ chunks' = << >> /\ chunk_idx' = 0 /\ batch_results' = EmptyDict

\* __init__ followed by run() up to the call of run_registration_algorithm, for
\* profile lists and worker counts drawn from the given sets
InitFrom(lists, workers) ==
    /\ profiles \in lists
    /\ phien_data \in PhienLists
    /\ max_workers \in workers
    /\ stop_event = FALSE
    /\ slot_full_pairs = {}
    /\ already_registered_profiles = EmptyDict
    /\ profile_successful_pairs = EmptyDict
    /\ successful_pairs_set = {}
    /\ session_pool = init_session_pool(run_pool_size(max_workers, profiles))
    /\ inflight_sessions = 0
    /\ next_session = run_pool_size(max_workers, profiles) + 1
    /\ now = 0 /\ now_us = 0
    /\ iteration = 1
    /\ pair_idx = 1
    /\ results = EmptyDict
    /\ tasks = << >>
    /\ date_id = 0 /\ session_id = 0
    /\ eligible_profiles = << >>
    /\ captcha_session = 0
    /\ prev_round = NoPrevRound /\ only_success = TRUE /\ stale_captchas = {}
    /\ deadline = 0 /\ fetch_captcha_offset = DefaultOffset
    /\ log_queue = 0 /\ logger_thread = "running"
    /\ NoFrame

Init ==
    /\ InitFrom(ProfileLists, WorkerChoices)
    /\ pending_profiles = << >>
    /\ pc = "for_head"

\* ------------------------------------------------------------ main thread
\* "return final_results" / "return {}" back into the for loop of
\* run_registration_algorithm, which goes on to the next pair.  The frame of
\* register_all_profiles_parallel is gone; date_id, session_id, eligible_profiles,
\* pending_profiles and the history variables keep the values the call ended
\* with, until the next call.
ReturnToLoop(value, pending) ==
    /\ results' = value
    /\ pair_idx' = pair_idx + 1
    /\ pc' = "for_head"
    /\ pending_profiles' = pending
    /\ ResetFrame
    /\ UNCHANGED << iteration, date_id, session_id >>

\* the call of register_batch_with_shared_captcha up to its first chunk
StartBatch ==
    /\ chunks' = Chunks(pending_profiles, max_workers)
    /\ chunk_idx' = 1
    /\ batch_results' = EmptyDict
    /\ pc' = "chunk_head"

\* variant: stop_event is also tested at the head of "while True"
ForHead_StopAtWhile ==
    /\ pc = "for_head"
    /\ IF stop_event
       THEN /\ pc' = "returned"
            /\ UNCHANGED << iteration, pair_idx, date_id, session_id >>
       ELSE IF pair_idx > Len(phien_data)
       THEN /\ iteration < MaxIter
            /\ iteration' = iteration + 1
            /\ pair_idx' = 1
            /\ UNCHANGED << pc, date_id, session_id >>
       ELSE IF is_slot_full(phien_data[pair_idx][1], phien_data[pair_idx][2])
       THEN /\ pair_idx' = pair_idx + 1
            /\ UNCHANGED << pc, iteration, date_id, session_id >>
       ELSE /\ date_id' = phien_data[pair_idx][1]
            /\ session_id' = phien_data[pair_idx][2]
            /\ pc' = "enter"
            /\ UNCHANGED << iteration, pair_idx >>
    /\ UNCHANGED << inputVars, logVars, stop_event, trackingVars, poolVars, now,
                    now_us, results, eligible_profiles, pending_profiles,
                    captcha_session, frameVars, tasks, historyVars >>

\* run_registration_algorithm: the head of "for i, phien in enumerate(...)" inside
\* "while True", up to the call of register_all_profiles_parallel
ForHead ==
    /\ pc = "for_head"
    /\ IF pair_idx > Len(phien_data)
       THEN /\ iteration < MaxIter
            /\ iteration' = iteration + 1
            /\ pair_idx' = 1
            /\ UNCHANGED << pc, date_id, session_id >>
       ELSE IF stop_event
       THEN /\ pc' = "returned"
            /\ UNCHANGED << iteration, pair_idx, date_id, session_id >>
       ELSE IF is_slot_full(phien_data[pair_idx][1], phien_data[pair_idx][2])
       THEN /\ pair_idx' = pair_idx + 1
            /\ UNCHANGED << pc, iteration, date_id, session_id >>
       ELSE /\ date_id' = phien_data[pair_idx][1]
            /\ session_id' = phien_data[pair_idx][2]
            /\ pc' = "enter"
            /\ UNCHANGED << iteration, pair_idx >>
    /\ UNCHANGED << inputVars, logVars, stop_event, trackingVars, poolVars, now,
                    now_us, results, eligible_profiles, pending_profiles,
                    captcha_session, frameVars, tasks, historyVars >>

\* variant: the filter records every profile it lets through as registered for
\* the date
RegisterEnter_FilterMarks ==
    /\ pc = "enter"
    /\ LET eligible == EligibleProfiles(profiles, date_id, session_id)
       IN  /\ eligible_profiles' = eligible
           /\ already_registered_profiles' =
                 [p \in DOMAIN already_registered_profiles \cup Range(eligible) |->
                     DictGet(already_registered_profiles, p, {}) \cup
                        (IF p \in Range(eligible) THEN {date_id} ELSE {})]
           /\ IF is_slot_full(date_id, session_id) \/ eligible = << >>
              THEN ReturnToLoop(EmptyDict, << >>)
              ELSE /\ pc' = "get_session"
                   /\ pending_profiles' = << >>
                   /\ ResetFrame
                   /\ UNCHANGED << outerVars, date_id, session_id >>
    /\ prev_round' = NoPrevRound
    /\ only_success' = TRUE
    /\ stale_captchas' = {}
    /\ UNCHANGED << inputVars, logVars, stop_event, slot_full_pairs,
                    profile_successful_pairs, successful_pairs_set, poolVars, now,
                    now_us, captcha_session, tasks >>

\* variant: the first captcha is fetched whatever the exhausted check and the
\* filter give
RegisterEnter_NoEarlyReturn ==
    /\ pc = "enter"
    /\ eligible_profiles' = EligibleProfiles(profiles, date_id, session_id)
    /\ pc' = "get_session"
    /\ pending_profiles' = << >>
    /\ ResetFrame
    /\ UNCHANGED << outerVars, date_id, session_id >>
    /\ prev_round' = NoPrevRound
    /\ only_success' = TRUE
    /\ stale_captchas' = {}
    /\ UNCHANGED << inputVars, logVars, stop_event, trackingVars, poolVars, now, now_us,
                    captcha_session, tasks >>

\* register_all_profiles_parallel: the exhausted check and the eligibility filter
RegisterEnter ==
    /\ pc = "enter"
    /\ LET eligible == EligibleProfiles(profiles, date_id, session_id)
       IN  /\ eligible_profiles' = eligible
           /\ IF is_slot_full(date_id, session_id) \/ eligible = << >>
              THEN ReturnToLoop(EmptyDict, << >>)
              ELSE /\ pc' = "get_session"
                   /\ pending_profiles' = << >>
                   /\ ResetFrame
                   /\ UNCHANGED << outerVars, date_id, session_id >>
    /\ prev_round' = NoPrevRound
    /\ only_success' = TRUE
    /\ stale_captchas' = {}
    /\ UNCHANGED << inputVars, logVars, stop_event, trackingVars, poolVars, now, now_us,
                    captcha_session, tasks >>

\* the main thread inside get_session_from_pool (captcha_session = ...)
MainGetSession ==
    /\ pc = "get_session"
    /\ LET r == get_session_from_pool(main_pos, session_pool, inflight_sessions,
                                      next_session, hard_cap(max_workers), stop_event)
       IN  /\ session_pool' = r.pool
           /\ inflight_sessions' = r.inflight
           /\ next_session' = r.next
           /\ IF r.pos = "got"
              THEN /\ captcha_session' = r.session
                   /\ pc' = "fetching"
                   /\ main_pos' = "pool_check"
              ELSE /\ main_pos' = r.pos
                   /\ UNCHANGED << pc, captcha_session >>
    /\ UNCHANGED << inputVars, logVars, stop_event, trackingVars, now, now_us,
                    outerVars, callVars, final_results, retry_round, captcha_text,
                    captcha_timestamp, attempt, captcha_len, fetch_site,
                    captcha_error_profiles, next_pending, batchVars, tasks,
                    historyVars >>

\* what one attempt of get_fresh_captcha meets: an exception or none, the status
\* of the challenge page, whether the page holds a src="..." reference, the
\* status of the image, the length of the text the solver gives
FetchOutcome(exc, status, src, img_status, len) ==
    [exc |-> exc, status |-> status, src |-> src, img_status |-> img_status,
     len |-> len]
FetchOutcomes ==
    { FetchOutcome("none", 200, TRUE, 200, n) : n \in {0, 4, 5, 6} } \cup
    { FetchOutcome("none", st, TRUE, 200, 5) : st \in {503, 500, 404} } \cup
    { FetchOutcome("none", 200, FALSE, 200, 5) } \cup
    { FetchOutcome("none", 200, TRUE, st, 5) : st \in {503, 500, 404} } \cup
    { FetchOutcome(e, 200, TRUE, 200, 5) :
        e \in {"Timeout", "ConnectionError", "RequestException", "Exception"} }

\* variant: any solved text that is not empty is accepted
AttemptReturns_AnyText(o) ==
    /\ o.exc = "none"
    /\ o.status # 503 /\ o.status = 200
    /\ o.src
    /\ o.img_status # 503 /\ o.img_status = 200
    /\ o.len # 0

\* get_fresh_captcha: the attempt reaches "return captcha_text, captcha_timestamp"
AttemptReturns(o) ==
    /\ o.exc = "none"
    /\ o.status # 503 /\ o.status = 200
    /\ o.src
    /\ o.img_status # 503 /\ o.img_status = 200
    /\ ~ (o.len = 0 \/ o.len # 5)

\* get_fresh_captcha returns, the session goes back to the pool, and the caller
\* continues up to its next reading of shared state:
\*   initial: pending_profiles = eligible_profiles.copy() ... the while head
\*   ttl    : the call of register_batch_with_shared_captcha
\*   refresh: next_pending.extend(...), pending_profiles = next_pending, the
\*            exhausted check that ends the loop
FetchReturn(len) ==
    /\ LET back == return_session_to_pool(captcha_session, session_pool,
                       inflight_sessions, max_pool_size(max_workers))
       IN  /\ session_pool' = back.pool
           /\ inflight_sessions' = back.inflight
    /\ captcha_session' = 0
    /\ CASE fetch_site = "initial" ->
              /\ captcha_text' = captcha_text + 1
              /\ captcha_len' = len
              /\ captcha_timestamp' = now
              /\ attempt' = 0
              /\ pending_profiles' = eligible_profiles
              /\ final_results' = EmptyDict
              /\ retry_round' = 0
              /\ pc' = "loop_head"
              /\ UNCHANGED << outerVars, date_id, session_id, main_pos, fetch_site,
                              batchVars, captcha_error_profiles, next_pending >>
         [] fetch_site = "ttl" ->
              /\ captcha_text' = captcha_text + 1
              /\ captcha_len' = len
              /\ captcha_timestamp' = now
              /\ attempt' = 0
              /\ StartBatch
              /\ UNCHANGED << outerVars, date_id, session_id, main_pos, fetch_site,
                              pending_profiles, final_results, retry_round,
                              captcha_error_profiles, next_pending >>
         [] OTHER ->
              IF is_slot_full(date_id, session_id)
              THEN ReturnToLoop(final_results,
                                ExtendPending(next_pending, captcha_error_profiles))
              ELSE /\ captcha_text' = captcha_text + 1
                   /\ captcha_len' = len
                   /\ captcha_timestamp' = now
                   /\ attempt' = 0
                   /\ pending_profiles' =
                          ExtendPending(next_pending, captcha_error_profiles)
                   /\ next_pending' = << >>
                   /\ captcha_error_profiles' = << >>
                   /\ pc' = "loop_head"
                   /\ UNCHANGED << outerVars, date_id, session_id, main_pos,
                                   fetch_site, final_results, retry_round, batchVars >>
    /\ UNCHANGED << inputVars, logVars, stop_event, trackingVars, next_session, now,
                    now_us, eligible_profiles, tasks, historyVars >>

\* get_fresh_captcha: "continue", the attempt failed
FetchRetry ==
    /\ attempt < MaxAttempts
    /\ attempt' = attempt + 1
    /\ UNCHANGED << inputVars, logVars, stop_event, trackingVars, poolVars, now,
                    now_us, pc, outerVars, callVars, captcha_session, final_results,
                    retry_round, captcha_text, captcha_timestamp, captcha_len,
                    main_pos, fetch_site, captcha_error_profiles, next_pending,
                    batchVars, tasks, historyVars >>

\* One attempt of the "while True" loop of get_fresh_captcha: it fails and the
\* loop goes round again, or it solves a text of five characters and returns
FetchCaptcha ==
    /\ pc = "fetching"
    /\ \E o \in FetchOutcomes :
         IF AttemptReturns(o) THEN FetchReturn(o.len) ELSE FetchRetry

\* "while pending_profiles:" with the TTL check of step 2
LoopHead ==
    /\ pc = "loop_head"
    /\ IF pending_profiles = << >>
       THEN ReturnToLoop(final_results, << >>)
       ELSE /\ retry_round < MaxRounds
            /\ retry_round' = retry_round + 1
            /\ IF ~ is_captcha_valid(captcha_timestamp, CAPTCHA_TTL, now)
               THEN /\ pc' = "get_session"
                    /\ main_pos' = "pool_check"
                    /\ fetch_site' = "ttl"
                    /\ UNCHANGED batchVars
               ELSE /\ StartBatch
                    /\ UNCHANGED << main_pos, fetch_site >>
            /\ UNCHANGED << outerVars, callVars, final_results, captcha_text,
                            captcha_timestamp, attempt, captcha_len,
                            captcha_error_profiles, next_pending >>
    /\ stale_captchas' =
          IF pending_profiles # << >> /\ now - captcha_timestamp >= CAPTCHA_TTL
          THEN stale_captchas \cup {captcha_text} ELSE stale_captchas
    /\ UNCHANGED << inputVars, logVars, stop_event, trackingVars, poolVars, now, now_us,
                    eligible_profiles, captcha_session, tasks, prev_round,
                    only_success >>

\* ------------------------------------------------------------ dispatcher
\* "for chunk_idx, chunk in enumerate(chunks, 1)": the safety-TTL check and the
\* submission of the chunk's tasks to the executor, or "return results"
ChunkHead ==
    /\ pc = "chunk_head"
    /\ IF chunk_idx > Len(chunks)
       THEN /\ pc' = "evaluate"
            /\ UNCHANGED << chunk_idx, batch_results, tasks >>
       ELSE IF ~ is_captcha_valid(captcha_timestamp, SAFETY_TTL, now)
       THEN /\ batch_results' =
                   [p \in DOMAIN batch_results \cup Range(chunks[chunk_idx]) |->
                       IF p \in Range(chunks[chunk_idx]) THEN ExpiredResult
                       ELSE batch_results[p]]
            /\ chunk_idx' = chunk_idx + 1
            /\ UNCHANGED << pc, tasks >>
       ELSE /\ tasks' = [k \in DOMAIN chunks[chunk_idx] |->
                            NewTask(chunks[chunk_idx][k], date_id, session_id,
                                    captcha_text)]
            /\ pc' = "collect"
            /\ UNCHANGED << chunk_idx, batch_results >>
    /\ UNCHANGED << inputVars, logVars, stop_event, trackingVars, poolVars, now,
                    now_us, outerVars, callVars, final_results, retry_round,
                    captcha_text, captcha_timestamp, attempt, captcha_len,
                    captcha_session, main_pos, fetch_site, captcha_error_profiles,
                    next_pending, chunks, historyVars >>

\* a worker thread of the executor inside get_session_from_pool, first statement
\* of register_single_attempt
TaskGetSession(k) ==
    /\ k \in DOMAIN tasks
    /\ tasks[k].pos \in {"pool_check", "cap_check", "stop_check"}
    /\ LET r == get_session_from_pool(tasks[k].pos, session_pool, inflight_sessions,
                                      next_session, hard_cap(max_workers), stop_event)
       IN  /\ session_pool' = r.pool
           /\ inflight_sessions' = r.inflight
           /\ next_session' = r.next
           /\ tasks' = [tasks EXCEPT
                  ![k].pos = IF r.pos = "got" THEN "request" ELSE r.pos,
                  ![k].session = r.session,
                  ![k].acquired = @ + (IF r.pos = "got" THEN 1 ELSE 0)]
    /\ UNCHANGED << inputVars, logVars, stop_event, trackingVars, now, now_us, pc,
                    outerVars, callVars, captcha_session, frameVars, historyVars >>

\* the try/except/finally of register_single_attempt: the request, its
\* classification, the return of the session; the future completes and, while the
\* main thread is in the as_completed loop, its result is stored in results
TaskRespond(k, resp) ==
    /\ k \in DOMAIN tasks
    /\ tasks[k].pos = "request"
    /\ LET res == AttemptResult(resp)
           back == return_session_to_pool(tasks[k].session, session_pool,
                       inflight_sessions, max_pool_size(max_workers))
       IN  /\ IF FinallyReturnsSession(res.error_type)
              THEN /\ session_pool' = back.pool
                   /\ inflight_sessions' = back.inflight
                   /\ tasks' = [tasks EXCEPT ![k].pos = "done",
                                             ![k].response = resp,
                                             ![k].exit = res.error_type,
                                             ![k].returned = tasks[k].session,
                                             ![k].released = @ + 1]
              ELSE /\ UNCHANGED << session_pool, inflight_sessions >>
                   /\ tasks' = [tasks EXCEPT ![k].pos = "done",
                                             ![k].response = resp,
                                             ![k].exit = res.error_type]
           /\ IF pc = "collect"
              THEN batch_results' = DictSet(batch_results, tasks[k].profile, res)
              ELSE UNCHANGED batch_results
    /\ UNCHANGED << inputVars, logVars, stop_event, trackingVars, next_session, now,
                    now_us, pc, outerVars, callVars, captcha_session, final_results,
                    retry_round, captcha_text, captcha_timestamp, attempt,
                    captcha_len, main_pos, fetch_site, captcha_error_profiles,
                    next_pending, chunks, chunk_idx, historyVars >>

\* register_single_attempt from its request on, for the responses followed in
\* the whole program
TaskRequest(k) == \E resp \in TaskResponses : TaskRespond(k, resp)

\* variant: the chunk loop goes on without waiting for the futures
ChunkJoin_NoWait ==
    /\ pc = "collect"
    /\ tasks' = << >>
    /\ chunk_idx' = chunk_idx + 1
    /\ pc' = "chunk_head"
    /\ UNCHANGED << inputVars, logVars, stop_event, trackingVars, poolVars, now,
                    now_us, outerVars, callVars, captcha_session, final_results,
                    retry_round, captcha_text, captcha_timestamp, attempt,
                    captcha_len, main_pos, fetch_site, captcha_error_profiles,
                    next_pending, chunks, batch_results, historyVars >>

\* the as_completed loop has seen every future of the chunk; the 30ms pause and
\* the next iteration of the chunk loop
ChunkJoin ==
    /\ pc = "collect"
    /\ \A k \in DOMAIN tasks : tasks[k].pos = "done"
    /\ tasks' = << >>
    /\ chunk_idx' = chunk_idx + 1
    /\ pc' = "chunk_head"
    /\ UNCHANGED << inputVars, logVars, stop_event, trackingVars, poolVars, now,
                    now_us, outerVars, callVars, captcha_session, final_results,
                    retry_round, captcha_text, captcha_timestamp, attempt,
                    captcha_len, main_pos, fetch_site, captcha_error_profiles,
                    next_pending, chunks, batch_results, historyVars >>

\* steps 4 and 5 of the retry loop up to the call of get_session_from_pool (a
\* captcha error was seen) or, without one, through "pending_profiles =
\* next_pending" and the exhausted check
Evaluate ==
    /\ pc = "evaluate"
    /\ LET st == EvalLoop([slot |-> slot_full_pairs,
                           reg |-> already_registered_profiles,
                           byprofile |-> profile_successful_pairs,
                           flat |-> successful_pairs_set,
                           final |-> final_results,
                           cep |-> << >>, np |-> << >>],
                          pending_profiles, date_id, session_id, batch_results)
           tags == RoundTags(pending_profiles, batch_results)
       IN  /\ slot_full_pairs' = st.slot
           /\ already_registered_profiles' = st.reg
           /\ profile_successful_pairs' = st.byprofile
           /\ successful_pairs_set' = st.flat
           /\ prev_round' =
                 [cred |-> captcha_text,
                  captcha |-> { p \in Range(pending_profiles) :
                        DictGet(batch_results, p, NoResult).error_type = "CAPTCHA_ERROR" },
                  expired |-> "CAPTCHA_EXPIRED" \in tags,
                  slot_full |-> { p \in Range(pending_profiles) :
                        DictGet(batch_results, p, NoResult).error_type = "SLOT_FULL" },
                  retry |-> { p \in Range(pending_profiles) :
                        DictGet(batch_results, p, NoResult).error_type \notin FinalTags }]
           /\ only_success' = (only_success /\ tags \subseteq {"SUCCESS", "CAPTCHA_EXPIRED"})
           /\ log_queue' = LogAll(log_queue, Len(pending_profiles))
           /\ IF st.cep # << >>
              THEN /\ final_results' = st.final
                   /\ captcha_error_profiles' = st.cep
                   /\ next_pending' = st.np
                   /\ pc' = "get_session"
                   /\ main_pos' = "pool_check"
                   /\ fetch_site' = "refresh"
                   /\ batch_results' = EmptyDict
                   /\ UNCHANGED << outerVars, callVars, retry_round, captcha_text,
                                   captcha_timestamp, attempt, captcha_len, chunks,
                                   chunk_idx >>
              ELSE IF slot_full_in(st.slot, date_id, session_id)
              THEN ReturnToLoop(st.final, st.np)
              ELSE /\ final_results' = st.final
                   /\ pending_profiles' = st.np
                   /\ pc' = "loop_head"
                   /\ batch_results' = EmptyDict
                   /\ UNCHANGED << outerVars, date_id, session_id, retry_round,
                                   captcha_text, captcha_timestamp, attempt,
                                   captcha_len, main_pos, fetch_site,
                                   captcha_error_profiles, next_pending, chunks,
                                   chunk_idx >>
    /\ UNCHANGED << inputVars, logger_thread, stop_event, poolVars, now, now_us,
                    eligible_profiles, captcha_session, tasks, stale_captchas >>

\* ------------------------------------------------------------ environment
\* The wall clock moves.  Only the while head, the chunk head and get_fresh_captcha
\* read it, so it is advanced where the main thread is about to read it, and only
\* to the instants at which one of the two validity checks changes its answer
\* (every instant in between gives the same answers as the threshold before it).
Tick ==
    /\ \/ pc = "loop_head" /\ pending_profiles # << >>
       \/ pc = "chunk_head" /\ chunk_idx <= Len(chunks)
       \/ pc = "fetching"
    /\ \E t \in ClockThresholds(captcha_timestamp) :
         /\ t > now /\ t <= MaxTime
         /\ now' = t
    /\ UNCHANGED << now_us, inputVars, logVars, stop_event, trackingVars, poolVars,
                    pc, outerVars, callVars, captcha_session, frameVars, tasks,
                    historyVars >>

\* variant: the handler of KeyboardInterrupt leaves stop_event as it is
Interrupt_NoStop ==
    /\ pc \in {"load", "for_head", "enter", "get_session", "fetching", "loop_head",
               "chunk_head", "collect", "evaluate"}
    /\ pc' = "cleanup"
    /\ ResetFrame
    /\ date_id' = 0 /\ session_id' = 0
    /\ eligible_profiles' = << >> /\ pending_profiles' = << >>
    /\ captcha_session' = 0
    /\ prev_round' = NoPrevRound /\ only_success' = TRUE /\ stale_captchas' = {}
    /\ iteration' = 0 /\ pair_idx' = 0 /\ results' = EmptyDict
    /\ UNCHANGED << inputVars, logVars, trackingVars, poolVars, now, now_us, tasks,
                    stop_event >>

\* KeyboardInterrupt in the main thread while it is loading its inputs or inside
\* run_registration_algorithm: the frames are unwound (their locals are gone, a
\* captcha session in use is not returned) and run() sets stop_event
Interrupt ==
    /\ pc \in {"load", "for_head", "enter", "get_session", "fetching", "loop_head",
               "chunk_head", "collect", "evaluate"}
    /\ stop_event' = TRUE
    /\ pc' = "cleanup"
    /\ ResetFrame
    /\ date_id' = 0 /\ session_id' = 0
    /\ eligible_profiles' = << >> /\ pending_profiles' = << >>
    /\ captcha_session' = 0
    /\ prev_round' = NoPrevRound /\ only_success' = TRUE /\ stale_captchas' = {}
    /\ iteration' = 0 /\ pair_idx' = 0 /\ results' = EmptyDict
    /\ UNCHANGED << inputVars, logVars, trackingVars, poolVars, now, now_us, tasks >>

\* ------------------------------------------------------------ logger thread
\* logger_worker: one pass of the loop that finds an entry; get, write, flush and
\* task_done
LoggerWrite ==
    /\ logger_thread = "running"
    /\ log_queue > 0
    /\ log_queue' = log_queue - 1
    /\ UNCHANGED << inputVars, logger_thread, stop_event, trackingVars, poolVars,
                    now, now_us, pc, outerVars, callVars, captcha_session,
                    frameVars, tasks, historyVars >>

\* logger_worker: "while not self.stop_event.is_set() or not
\* self.log_queue.empty()" is false, the thread ends
LoggerExit ==
    /\ logger_thread = "running"
    /\ ~ (~ stop_event \/ log_queue # 0)
    /\ logger_thread' = "stopped"
    /\ UNCHANGED << inputVars, log_queue, stop_event, trackingVars, poolVars, now,
                    now_us, pc, outerVars, callVars, captcha_session, frameVars,
                    tasks, historyVars >>

\* ------------------------------------------------------------ teardown
\* run(): "finally: self._cleanup_resources()".
\* step 1: executor.shutdown(wait=True, cancel_futures=False) returns once every
\* submitted task has run to its end
CleanupExecutor ==
    /\ pc \in {"cleanup", "returned"}
    /\ \A k \in DOMAIN tasks : tasks[k].pos = "done"
    /\ tasks' = << >>
    /\ pc' = "cleanup_logger"
    /\ UNCHANGED << inputVars, logVars, stop_event, trackingVars, poolVars, now, now_us,
                    outerVars, callVars, captcha_session, frameVars, historyVars >>

\* step 2: "if self.logger_thread and self.logger_thread.is_alive():" and
\* log_queue.join(), which returns once every entry got its task_done
CleanupLogQueue ==
    /\ pc = "cleanup_logger"
    /\ IF logger_thread = "running"
       THEN /\ log_queue = 0
            /\ pc' = "cleanup_thread"
       ELSE pc' = "cleanup_sessions"
    /\ UNCHANGED << inputVars, logVars, stop_event, trackingVars, poolVars, now, now_us,
                    outerVars, callVars, captcha_session, frameVars, tasks,
                    historyVars >>

\* step 2, logger_thread.join(timeout=5): the thread has ended, or five seconds
\* pass while it is kept in its loop by an unset stop_event
CleanupLoggerThread ==
    /\ pc = "cleanup_thread"
    /\ logger_thread = "stopped" \/ ~ stop_event
    /\ pc' = "cleanup_sessions"
    /\ UNCHANGED << inputVars, logVars, stop_event, trackingVars, poolVars, now, now_us,
                    outerVars, callVars, captcha_session, frameVars, tasks,
                    historyVars >>

\* step 3: "while self.session_pool:" popleft and close
CleanupSessions ==
    /\ pc = "cleanup_sessions"
    /\ session_pool' = << >>
    /\ pc' = "exited"
    /\ UNCHANGED << inputVars, logVars, stop_event, trackingVars, inflight_sessions,
                    next_session, now, now_us, outerVars, callVars, captcha_session,
                    frameVars, tasks, historyVars >>

\* _cleanup_resources
Cleanup ==
    \/ CleanupExecutor
    \/ CleanupLogQueue
    \/ CleanupLoggerThread
    \/ CleanupSessions

\* the logger thread has nothing to write
LoggerIdle == logger_thread = "stopped" \/ log_queue = 0

\* The main thread, the workers and the logger thread.  A write of the logger
\* thread changes log_queue only, and no step of another thread disables it or
\* reads log_queue below LogQueueSize, so every interleaving of a write with the
\* steps of the other threads ends in the same state: here the logger writes what
\* is queued before the other threads go on.  SpecRun follows every interleaving.
Next ==
    \/ LoggerIdle /\ ForHead
    \/ LoggerIdle /\ RegisterEnter
    \/ LoggerIdle /\ MainGetSession
    \/ LoggerIdle /\ FetchCaptcha
    \/ LoggerIdle /\ LoopHead
    \/ LoggerIdle /\ ChunkHead
    \/ \E k \in DOMAIN tasks : LoggerIdle /\ TaskGetSession(k)
    \/ \E k \in DOMAIN tasks : LoggerIdle /\ TaskRequest(k)
    \/ LoggerIdle /\ ChunkJoin
    \/ LoggerIdle /\ Evaluate
    \/ LoggerIdle /\ Tick
    \/ LoggerIdle /\ Interrupt
    \/ LoggerIdle /\ Cleanup
    \/ LoggerWrite
    \/ LoggerExit

Spec == Init /\ [][Next]_vars

\* ------------------------------------------------------------ the pool alone
\* The session pool as run() builds it for profile lists of every length up to
\* MaxPoolProfiles, used by the workers of one chunk after another.
SeqTo(n) == [k \in 1..n |-> k]
PoolProfileLists == { SeqTo(n) : n \in 1..MaxPoolProfiles }
PoolWorkerChoices == { 1, 2 }

InitPool ==
    /\ InitFrom(PoolProfileLists, PoolWorkerChoices)
    /\ pending_profiles = << >>
    /\ pc = "pool"

\* executor.submit(self.register_single_attempt, ...) for the profiles of the
\* next chunk, chunk_idx counting the chunks
PoolSubmit ==
    /\ pc = "pool"
    /\ tasks = << >>
    /\ chunk_idx < MaxPoolChunks
    /\ chunk_idx' = chunk_idx + 1
    /\ \E m \in 1..Min(max_workers, Len(profiles)) :
         tasks' = [k \in 1..m |-> NewTask(profiles[k], phien_data[1][1],
                                          phien_data[1][2], 1)]
    /\ UNCHANGED << inputVars, logVars, stop_event, trackingVars, poolVars, now,
                    now_us, pc, outerVars, callVars, captcha_session, final_results,
                    retry_round, captcha_text, captcha_timestamp, attempt,
                    captcha_len, main_pos, fetch_site, captcha_error_profiles,
                    next_pending, chunks, batch_results, historyVars >>

\* every future of the chunk has completed
PoolJoin ==
    /\ pc = "pool"
    /\ tasks # << >>
    /\ \A k \in DOMAIN tasks : tasks[k].pos = "done"
    /\ tasks' = << >>
    /\ UNCHANGED << inputVars, logVars, stop_event, trackingVars, poolVars, now,
                    now_us, pc, outerVars, callVars, captcha_session, frameVars,
                    historyVars >>

NextPool ==
    \/ PoolSubmit
    \/ \E k \in DOMAIN tasks : TaskGetSession(k)
    \/ \E k \in DOMAIN tasks : TaskRequest(k)
    \/ PoolJoin

SpecPool == InitPool /\ [][NextPool]_vars

\* ------------------------------------------------------------ chunking alone
\* register_batch_with_shared_captcha splitting pending lists of every length up
\* to MaxChunkLen for every worker count up to MaxChunkWorkers.
ChunkProfileLists == { SeqTo(n) : n \in 1..MaxChunkLen }
ChunkWorkerChoices == 1..MaxChunkWorkers

InitChunk ==
    /\ InitFrom(ChunkProfileLists, ChunkWorkerChoices)
    /\ pending_profiles = profiles
    /\ pc = "batch_call"

BatchCall ==
    /\ pc = "batch_call"
    /\ StartBatch
    /\ UNCHANGED << inputVars, logVars, stop_event, trackingVars, poolVars, now,
                    now_us, outerVars, callVars, captcha_session, final_results,
                    retry_round, captcha_text, captcha_timestamp, attempt,
                    captcha_len, main_pos, fetch_site, captcha_error_profiles,
                    next_pending, tasks, historyVars >>

NextChunk == BatchCall

SpecChunk == InitChunk /\ [][NextChunk]_vars

\* ------------------------------------------------------------ the pool at its cap
\* The pool of a freshly constructed object (init_session_pool not yet called, so
\* the deque is empty) used by callers of get_session_from_pool and
\* return_session_to_pool beyond the workers of a chunk, so that idle + inflight
\* reaches hard_cap; stop_event may be set at any moment.
CapProfileLists == { <<1, 2>> }
CapWorkerChoices == { 1 }

InitCap ==
    /\ profiles \in CapProfileLists
    /\ phien_data \in PhienLists
    /\ max_workers \in CapWorkerChoices
    /\ stop_event = FALSE
    /\ slot_full_pairs = {}
    /\ already_registered_profiles = EmptyDict
    /\ profile_successful_pairs = EmptyDict
    /\ successful_pairs_set = {}
    /\ session_pool = << >>
    /\ inflight_sessions = 0
    /\ next_session = 1
    /\ now = 0 /\ now_us = 0
    /\ iteration = 1
    /\ pair_idx = 1
    /\ results = EmptyDict
    /\ tasks = << >>
    /\ date_id = 0 /\ session_id = 0
    /\ eligible_profiles = << >> /\ pending_profiles = << >>
    /\ captcha_session = 0
    /\ prev_round = NoPrevRound /\ only_success = TRUE /\ stale_captchas = {}
    /\ deadline = 0 /\ fetch_captcha_offset = DefaultOffset
    /\ log_queue = 0 /\ logger_thread = "running"
    /\ NoFrame
    /\ pc = "pool"

\* the sessions held by callers other than the workers: every session created so
\* far that is neither idle nor was ever held by a worker of the current chunk
HeldOutside ==
    (1..(next_session - 1)) \
        (Range(session_pool) \cup { tasks[k].session : k \in DOMAIN tasks })

\* another caller runs get_session_from_pool while the idle pool is empty and
\* returns without having to wait: the first pass of the loop creates a session
CallerAcquire ==
    /\ pc = "pool"
    /\ session_pool = << >>
    /\ LET r == get_session_from_pool("cap_check", session_pool,
                     inflight_sessions, next_session, hard_cap(max_workers),
                     stop_event)
       IN  /\ r.pos = "got"
           /\ session_pool' = r.pool
           /\ inflight_sessions' = r.inflight
           /\ next_session' = r.next
    /\ UNCHANGED << inputVars, logVars, stop_event, trackingVars, now, now_us, pc,
                    outerVars, callVars, captcha_session, frameVars, tasks,
                    historyVars >>

\* another caller gives a session back, while fewer than MaxCapIdle are idle
CallerRelease ==
    /\ pc = "pool"
    /\ HeldOutside # {}
    /\ Len(session_pool) < MaxCapIdle
    /\ LET s == CHOOSE x \in HeldOutside : \A y \in HeldOutside : x <= y
           back == return_session_to_pool(s, session_pool, inflight_sessions,
                       max_pool_size(max_workers))
       IN  /\ session_pool' = back.pool
           /\ inflight_sessions' = back.inflight
    /\ UNCHANGED << inputVars, logVars, stop_event, trackingVars, next_session, now,
                    now_us, pc, outerVars, callVars, captcha_session, frameVars,
                    tasks, historyVars >>

\* run(): self.stop_event.set() in an except handler, workers possibly still running
SetStop ==
    /\ pc = "pool"
    /\ ~ stop_event
    /\ stop_event' = TRUE
    /\ UNCHANGED << inputVars, logVars, trackingVars, poolVars, now, now_us, pc,
                    outerVars, callVars, captcha_session, frameVars, tasks,
                    historyVars >>

NextCap ==
    \/ PoolSubmit
    \/ \E k \in DOMAIN tasks : TaskGetSession(k)
    \/ \E k \in DOMAIN tasks : TaskRequest(k)
    \/ PoolJoin
    \/ CallerAcquire
    \/ CallerRelease
    \/ SetStop

\* a worker thread that can take a step takes one (the 5ms sleep ends, the lock
\* is granted), and a request ends, at the latest by its timeout
CapFairness ==
    /\ \A k \in 1..2 : WF_vars(TaskGetSession(k))
    /\ \A k \in 1..2 : WF_vars(TaskRequest(k))

SpecCap == InitCap /\ [][NextCap]_vars /\ CapFairness

\* ------------------------------------------------------------ the pool in normal use
\* The pool as the program itself uses it: the workers of one chunk, at most
\* max_workers of them, and the main thread's captcha session
\* (get_session_from_pool, get_fresh_captcha, return_session_to_pool), with
\* stop_event unset.  The idle pool starts empty (init_session_pool not called)
\* or with max_workers sessions (init_session_pool() with its default size), so
\* that it runs empty; filled by run() it never does.
NormalProfileLists == { <<1, 2>>, <<1, 2, 3>> }
NormalWorkerChoices == { 1, 2 }
NormalPoolSizes(w) == { 0, w }

InitNormal ==
    /\ profiles \in NormalProfileLists
    /\ phien_data \in PhienLists
    /\ max_workers \in NormalWorkerChoices
    /\ stop_event = FALSE
    /\ slot_full_pairs = {}
    /\ already_registered_profiles = EmptyDict
    /\ profile_successful_pairs = EmptyDict
    /\ successful_pairs_set = {}
    /\ \E n \in NormalPoolSizes(max_workers) :
          /\ session_pool = init_session_pool(n)
          /\ next_session = n + 1
    /\ inflight_sessions = 0
    /\ now = 0 /\ now_us = 0
    /\ iteration = 1
    /\ pair_idx = 1
    /\ results = EmptyDict
    /\ tasks = << >>
    /\ date_id = 0 /\ session_id = 0
    /\ eligible_profiles = << >> /\ pending_profiles = << >>
    /\ captcha_session = 0
    /\ prev_round = NoPrevRound /\ only_success = TRUE /\ stale_captchas = {}
    /\ deadline = 0 /\ fetch_captcha_offset = DefaultOffset
    /\ log_queue = 0 /\ logger_thread = "running"
    /\ NoFrame
    /\ pc = "pool"

\* "captcha_session = self.get_session_from_pool()" in the main thread
CaptchaSessionAcquire ==
    /\ pc = "pool"
    /\ captcha_session = 0
    /\ LET r == get_session_from_pool(main_pos, session_pool, inflight_sessions,
                     next_session, hard_cap(max_workers), stop_event)
       IN  /\ session_pool' = r.pool
           /\ inflight_sessions' = r.inflight
           /\ next_session' = r.next
           /\ captcha_session' = r.session
           /\ main_pos' = IF r.pos = "got" THEN "pool_check" ELSE r.pos
    /\ UNCHANGED << inputVars, logVars, stop_event, trackingVars, now, now_us, pc,
                    outerVars, callVars, final_results, retry_round, captcha_text,
                    captcha_timestamp, attempt, captcha_len, fetch_site,
                    captcha_error_profiles, next_pending, batchVars, tasks,
                    historyVars >>

\* "self.return_session_to_pool(captcha_session)" after get_fresh_captcha
CaptchaSessionRelease ==
    /\ pc = "pool"
    /\ captcha_session # 0
    /\ LET back == return_session_to_pool(captcha_session, session_pool,
                       inflight_sessions, max_pool_size(max_workers))
       IN  /\ session_pool' = back.pool
           /\ inflight_sessions' = back.inflight
    /\ captcha_session' = 0
    /\ UNCHANGED << inputVars, logVars, stop_event, trackingVars, next_session, now,
                    now_us, pc, outerVars, callVars, frameVars, tasks, historyVars >>

NextNormal ==
    \/ PoolSubmit
    \/ \E k \in DOMAIN tasks : TaskGetSession(k)
    \/ \E k \in DOMAIN tasks : TaskRequest(k)
    \/ PoolJoin
    \/ CaptchaSessionAcquire
    \/ CaptchaSessionRelease

SpecNormal == InitNormal /\ [][NextNormal]_vars

\* ------------------------------------------------------------ one call to its end
\* register_all_profiles_parallel without an interrupt: the main thread and the
\* workers go on as long as one of them can take a step.
TermProfileLists == { <<1, 2>> }

InitTerm ==
    /\ InitFrom(TermProfileLists, WorkerChoices)
    /\ pending_profiles = << >>
    /\ pc = "for_head"

NextTerm ==
    \/ ForHead
    \/ RegisterEnter
    \/ MainGetSession
    \/ FetchCaptcha
    \/ LoopHead
    \/ ChunkHead
    \/ \E k \in DOMAIN tasks : TaskGetSession(k)
    \/ \E k \in DOMAIN tasks : TaskRequest(k)
    \/ ChunkJoin
    \/ Evaluate
    \/ Tick
    \/ LoggerWrite

\* a thread that can take a step takes one: a request ends at the latest by its
\* timeout, a lock is granted, the logger's get returns
TermFairness == WF_vars(NextTerm)

SpecTerm == InitTerm /\ [][NextTerm]_vars /\ TermFairness

\* ------------------------------------------------------------ failing tasks
\* One call of register_all_profiles_parallel with two workers and three
\* profiles (a chunk of two and a chunk of one), on a pool as run() fills it or
\* on the empty pool of an object whose init_session_pool was not called, where
\* every get_session_from_pool has to create its session and
\* create_session_with_pool may raise.  The clock and the logger thread are not
\* followed.
TaskProfileLists == { <<1, 2, 3>> }
TaskWorkerChoices == { 2 }
TaskPoolSizes(w, ps) == { 0, run_pool_size(w, ps) }

InitTask ==
    /\ profiles \in TaskProfileLists
    /\ phien_data \in PhienLists
    /\ max_workers \in TaskWorkerChoices
    /\ stop_event = FALSE
    /\ slot_full_pairs = {}
    /\ already_registered_profiles = EmptyDict
    /\ profile_successful_pairs = EmptyDict
    /\ successful_pairs_set = {}
    /\ \E n \in TaskPoolSizes(max_workers, profiles) :
          /\ session_pool = init_session_pool(n)
          /\ next_session = n + 1
    /\ inflight_sessions = 0
    /\ now = 0 /\ now_us = 0
    /\ iteration = 1
    /\ pair_idx = 1
    /\ results = EmptyDict
    /\ tasks = << >>
    /\ date_id = phien_data[1][1] /\ session_id = phien_data[1][2]
    /\ eligible_profiles = << >> /\ pending_profiles = << >>
    /\ captcha_session = 0
    /\ prev_round = NoPrevRound /\ only_success = TRUE /\ stale_captchas = {}
    /\ deadline = 0 /\ fetch_captcha_offset = DefaultOffset
    /\ log_queue = 0 /\ logger_thread = "running"
    /\ NoFrame
    /\ pc = "enter"

\* variant: the exception of the future is not turned into a result
TaskAcquireRaises_NoResult(k) ==
    /\ k \in DOMAIN tasks
    /\ tasks[k].pos = "cap_check"
    /\ Len(session_pool) + inflight_sessions < hard_cap(max_workers)
    /\ inflight_sessions' = inflight_sessions + 1
    /\ tasks' = [tasks EXCEPT ![k].pos = "done", ![k].exit = "raised"]
    /\ UNCHANGED batch_results
    /\ UNCHANGED << inputVars, logVars, stop_event, trackingVars, session_pool,
                    next_session, now, now_us, pc, outerVars, callVars,
                    captcha_session, final_results, retry_round, captcha_text,
                    captcha_timestamp, attempt, captcha_len, main_pos, fetch_site,
                    captcha_error_profiles, next_pending, chunks, chunk_idx,
                    historyVars >>

\* register_single_attempt: "session = self.get_session_from_pool()", before the
\* try block, with create_session_with_pool raising: inflight_sessions was
\* incremented, no session is returned, the exception ends the future, and the
\* as_completed loop stores (False, "EXCEPTION", str(e)) for the profile
TaskAcquireRaises(k) ==
    /\ k \in DOMAIN tasks
    /\ tasks[k].pos = "cap_check"
    /\ Len(session_pool) + inflight_sessions < hard_cap(max_workers)
    /\ inflight_sessions' = inflight_sessions + 1
    /\ tasks' = [tasks EXCEPT ![k].pos = "done", ![k].exit = "raised"]
    /\ IF pc = "collect"
       THEN batch_results' = DictSet(batch_results, tasks[k].profile,
                                     Outcome(FALSE, "EXCEPTION"))
       ELSE UNCHANGED batch_results
    /\ UNCHANGED << inputVars, logVars, stop_event, trackingVars, session_pool,
                    next_session, now, now_us, pc, outerVars, callVars,
                    captcha_session, final_results, retry_round, captcha_text,
                    captcha_timestamp, attempt, captcha_len, main_pos, fetch_site,
                    captcha_error_profiles, next_pending, chunks, chunk_idx,
                    historyVars >>

NextTask ==
    \/ RegisterEnter
    \/ MainGetSession
    \/ FetchCaptcha
    \/ LoopHead
    \/ ChunkHead
    \/ \E k \in DOMAIN tasks : TaskGetSession(k)
    \/ \E k \in DOMAIN tasks : TaskAcquireRaises(k)
    \/ \E k \in DOMAIN tasks : TaskRequest(k)
    \/ ChunkJoin
    \/ Evaluate

SpecTask == InitTask /\ [][NextTask]_vars

\* ------------------------------------------------------------ the filter alone
\* register_all_profiles_parallel entered for one of three pairs (two of them on
\* the same date) with a tracking store in which every profile has at most one
\* mark: a success for one pair (which also registers it for the date) or an
\* ALREADY_REGISTERED answer for one date; any set of pairs may be exhausted.
FilterPairs == << <<67, 101>>, <<67, 103>>, <<69, 101>> >>
FilterDates == { FilterPairs[i][1] : i \in DOMAIN FilterPairs }
FilterMarks ==
    { [kind |-> "none", date |-> 0, session |-> 0] }
    \cup { [kind |-> "success", date |-> FilterPairs[i][1],
            session |-> FilterPairs[i][2]] : i \in DOMAIN FilterPairs }
    \cup { [kind |-> "registered", date |-> d, session |-> 0] : d \in FilterDates }

InitFilter ==
    /\ profiles \in ProfileLists
    /\ phien_data = FilterPairs
    /\ max_workers \in WorkerChoices
    /\ stop_event = FALSE
    /\ slot_full_pairs \in SUBSET Range(FilterPairs)
    /\ \E marks \in [Range(profiles) -> FilterMarks] :
          /\ already_registered_profiles =
                [p \in { q \in Range(profiles) : marks[q].kind # "none" } |->
                    { marks[p].date }]
          /\ profile_successful_pairs =
                [p \in { q \in Range(profiles) : marks[q].kind = "success" } |->
                    { << marks[p].date, marks[p].session >> }]
          /\ successful_pairs_set =
                { << p, marks[p].date, marks[p].session >> :
                      p \in { q \in Range(profiles) : marks[q].kind = "success" } }
    /\ session_pool = init_session_pool(run_pool_size(max_workers, profiles))
    /\ inflight_sessions = 0
    /\ next_session = run_pool_size(max_workers, profiles) + 1
    /\ now = 0 /\ now_us = 0
    /\ iteration = 1
    /\ pair_idx \in DOMAIN FilterPairs
    /\ results = EmptyDict
    /\ tasks = << >>
    /\ date_id = phien_data[pair_idx][1] /\ session_id = phien_data[pair_idx][2]
    /\ eligible_profiles = << >> /\ pending_profiles = << >>
    /\ captcha_session = 0
    /\ prev_round = NoPrevRound /\ only_success = TRUE /\ stale_captchas = {}
    /\ deadline = 0 /\ fetch_captcha_offset = DefaultOffset
    /\ log_queue = 0 /\ logger_thread = "running"
    /\ NoFrame
    /\ pc = "enter"

NextFilter == RegisterEnter

SpecFilter == InitFilter /\ [][NextFilter]_vars

\* ------------------------------------------------------------ the countdown
\* run(target_time, fetch_captcha_offset) from the call of
\* wait_for_registration_time to the first captcha of the first pair.
\* target_time is parsed to whole seconds; 0 stands for no target_time.
Deadlines == { 0, 1, 12, 66 }
Offsets == { 0, DefaultOffset, 10 }
\* the clock when run() reaches the countdown: microseconds past second 0
StartMicros == { 0, 250, 2500 }

Micro == 1000000
\* wait_for_registration_time: remaining = deadline - time.time(), in microseconds
remaining == (deadline - now) * Micro - now_us
\* wait_for_registration_time: fetch_captcha_at, in whole seconds
fetch_captcha_at == deadline - fetch_captcha_offset

\* wait_for_registration_time: the argument of time.sleep for a given remaining
\* time, in microseconds (remaining / 2 is cut to a whole microsecond)
countdown_sleep_CoarseSpin(rem) ==
    IF rem > 60 * Micro THEN 5 * Micro
    ELSE IF rem > 10 * Micro THEN Micro
    ELSE IF rem > Micro \div 10 THEN Min(Micro \div 10, rem \div 2)
    ELSE Micro \div 10

countdown_sleep(rem) ==
    IF rem > 60 * Micro THEN 5 * Micro
    ELSE IF rem > 10 * Micro THEN Micro
    ELSE IF rem > Micro \div 10 THEN Min(Micro \div 10, rem \div 2)
    ELSE Micro \div 1000

\* run(): "if target_time: fetch_captcha_at = self.wait_for_registration_time(...)"
\* and one pass of its "while True" loop; time.sleep returns exactly on time.
\* The value returned, fetch_captcha_at, is assigned in run() and not read again.
Countdown ==
    /\ pc = "countdown"
    /\ IF deadline = 0 \/ stop_event \/ remaining <= 0
       THEN /\ pc' = "for_head"
            /\ UNCHANGED << now, now_us >>
       ELSE LET t == now * Micro + now_us + countdown_sleep(remaining)
            IN  /\ now' = t \div Micro
                /\ now_us' = t % Micro
                /\ UNCHANGED pc
    /\ UNCHANGED << inputVars, logVars, stop_event, trackingVars, poolVars, outerVars,
                    callVars, captcha_session, frameVars, tasks, historyVars >>

InitCountdown ==
    /\ profiles \in ProfileLists
    /\ phien_data \in PhienLists
    /\ max_workers \in WorkerChoices
    /\ deadline \in Deadlines
    /\ fetch_captcha_offset \in Offsets
    /\ stop_event = FALSE
    /\ slot_full_pairs = {}
    /\ already_registered_profiles = EmptyDict
    /\ profile_successful_pairs = EmptyDict
    /\ successful_pairs_set = {}
    /\ session_pool = init_session_pool(run_pool_size(max_workers, profiles))
    /\ inflight_sessions = 0
    /\ next_session = run_pool_size(max_workers, profiles) + 1
    /\ now = 0 /\ now_us \in StartMicros
    /\ iteration = 1
    /\ pair_idx = 1
    /\ results = EmptyDict
    /\ tasks = << >>
    /\ date_id = 0 /\ session_id = 0
    /\ eligible_profiles = << >> /\ pending_profiles = << >>
    /\ captcha_session = 0
    /\ prev_round = NoPrevRound /\ only_success = TRUE /\ stale_captchas = {}
    /\ log_queue = 0 /\ logger_thread = "running"
    /\ NoFrame
    /\ pc = "countdown"

\* self.stop_event.set() called from outside the main thread while run() is
\* inside wait_for_registration_time or run_registration_algorithm
StopSignal ==
    /\ ~ stop_event
    /\ pc \in {"countdown", "for_head", "enter", "get_session", "fetching", "loop_head",
               "chunk_head", "collect", "evaluate"}
    /\ stop_event' = TRUE
    /\ UNCHANGED << inputVars, logVars, trackingVars, poolVars, now, now_us, pc,
                    outerVars, callVars, captcha_session, frameVars, tasks,
                    historyVars >>

\* the first captcha is there: what follows is the round loop of Spec
NextCountdown ==
    \/ Countdown
    \/ ForHead
    \/ RegisterEnter
    \/ MainGetSession
    \/ FetchCaptcha
    \/ StopSignal

SpecCountdown == InitCountdown /\ [][NextCountdown]_vars

\* ------------------------------------------------------------ the whole run
\* run() with stop_event set from outside the main thread.  run() itself sets
\* stop_event only in its except handlers, after run_registration_algorithm has
\* been left; the checks of stop_event in wait_for_registration_time and at the
\* for head can find it set only when another thread or a signal handler of the
\* embedding program has called stop_event.set().  Every interleaving of the
\* logger thread with the other threads is followed.
RunProfileLists == { <<1, 2>> }

InitRun ==
    /\ InitFrom(RunProfileLists, WorkerChoices)
    /\ pending_profiles = << >>
    /\ pc = "for_head"

NextRun ==
    \/ ForHead
    \/ RegisterEnter
    \/ MainGetSession
    \/ FetchCaptcha
    \/ LoopHead
    \/ ChunkHead
    \/ \E k \in DOMAIN tasks : TaskGetSession(k)
    \/ \E k \in DOMAIN tasks : TaskRequest(k)
    \/ ChunkJoin
    \/ Evaluate
    \/ Tick
    \/ Interrupt
    \/ Cleanup
    \/ LoggerWrite
    \/ LoggerExit
    \/ StopSignal

SpecRun == InitRun /\ [][NextRun]_vars

\* ------------------------------------------------------------ classification
\* One worker after another running register_single_attempt, for every status
\* and every body: a body is empty or has matches in any set of indicator lists.
ClassifyMarks == {"success", "captcha_error", "slot_full", "already_registered",
                  "server_error", "server_closed", "connection_error"}
ClassifyStatuses == {200, 500, 503, 404, 302}
ClassifyResponses ==
    { Http(st, b) : st \in ClassifyStatuses,
                    b \in {EmptyBody} \cup { Body(m) : m \in SUBSET ClassifyMarks } }
        \cup {RequestTimeout, RequestError}

InitClassify ==
    /\ InitFrom(RunProfileLists, WorkerChoices)
    /\ pending_profiles = << >>
    /\ pc = "pool"

NextClassify ==
    \/ PoolSubmit
    \/ \E k \in DOMAIN tasks : TaskGetSession(k)
    \/ \E k \in DOMAIN tasks : \E resp \in ClassifyResponses : TaskRespond(k, resp)
    \/ PoolJoin

SpecClassify == InitClassify /\ [][NextClassify]_vars

\* ------------------------------------------------------------ the log queue
\* The evaluation loop of a round calling log_message once for every outcome,
\* beside the logger thread, for every number of entries the queue can hold when
\* the loop starts.
InitLog ==
    /\ profiles \in RunProfileLists
    /\ phien_data \in PhienLists
    /\ max_workers \in WorkerChoices
    /\ deadline = 0 /\ fetch_captcha_offset = DefaultOffset
    /\ stop_event = FALSE
    /\ slot_full_pairs = {}
    /\ already_registered_profiles = EmptyDict
    /\ profile_successful_pairs = EmptyDict
    /\ successful_pairs_set = {}
    /\ session_pool = init_session_pool(run_pool_size(max_workers, profiles))
    /\ inflight_sessions = 0
    /\ next_session = run_pool_size(max_workers, profiles) + 1
    /\ now = 0 /\ now_us = 0
    /\ iteration = 1
    /\ pair_idx = 1
    /\ results = EmptyDict
    /\ tasks = << >>
    /\ date_id = 0 /\ session_id = 0
    /\ eligible_profiles = << >> /\ pending_profiles = << >>
    /\ captcha_session = 0
    /\ prev_round = NoPrevRound /\ only_success = TRUE /\ stale_captchas = {}
    /\ log_queue \in 0..LogQueueSize /\ logger_thread = "running"
    /\ NoFrame
    /\ pc = "log"

\* self.log_message(...) called and returned
LogCall ==
    /\ pc = "log"
    /\ log_queue' = log_message(log_queue)
    /\ pc' = "logged"
    /\ UNCHANGED << inputVars, logger_thread, stop_event, trackingVars, poolVars, now,
                    now_us, outerVars, callVars, captcha_session, frameVars, tasks,
                    historyVars >>

\* "for profile in pending_profiles:" goes on to the next outcome
LogNext ==
    /\ pc = "logged"
    /\ pc' = "log"
    /\ UNCHANGED << inputVars, logVars, stop_event, trackingVars, poolVars, now,
                    now_us, outerVars, callVars, captcha_session, frameVars, tasks,
                    historyVars >>

NextLog ==
    \/ LogCall
    \/ LogNext
    \/ LoggerWrite

SpecLog == InitLog /\ [][NextLog]_vars

\* ============================================================ properties
Pair == << date_id, session_id >>
InRound == pc \in {"chunk_head", "collect", "evaluate"}

\* C1: once (profile, date, session) is in successful_pairs_set, no
\* register_single_attempt task exists for that profile and pair, and no round is
\* started whose pending list holds such a profile -- in a later round of the
\* same call as well as in any later call for the pair.
C1_NoDispatchAfterSuccess ==
    /\ \A k \in DOMAIN tasks :
          << tasks[k].profile, tasks[k].date_id, tasks[k].session_id >>
              \notin successful_pairs_set
    /\ pc \in {"chunk_head", "collect"} =>
          \A p \in Range(pending_profiles) :
              << p, date_id, session_id >> \notin successful_pairs_set

\* a later round is running for the others while one profile has succeeded
C1_Witness ==
    /\ pc = "collect" /\ retry_round = 2
    /\ \E p \in Range(profiles) :
          /\ << p, date_id, session_id >> \in successful_pairs_set
          /\ \A k \in DOMAIN tasks : tasks[k].profile # p
    /\ \E k \in DOMAIN tasks : tasks[k].pos = "request"

\* C2: once a (date, session) pair is in slot_full_pairs, no task exists against
\* it and no round is running for it -- neither later in the call that marked it
\* nor in a later iteration of run_registration_algorithm.
C2_NoDispatchAfterSlotFull ==
    /\ \A k \in DOMAIN tasks :
          << tasks[k].date_id, tasks[k].session_id >> \notin slot_full_pairs
    /\ InRound => Pair \notin slot_full_pairs
    /\ pc \in {"loop_head", "enter"} => Pair \notin slot_full_pairs

\* the pair was marked with profiles still pending, and the next iteration of the
\* outer loop has passed over it
C2_Witness ==
    /\ pc = "for_head" /\ iteration = 2 /\ pair_idx = 2
    /\ << phien_data[1][1], phien_data[1][2] >> \in slot_full_pairs
    /\ pending_profiles # << >>
    /\ tasks = << >>

\* C3 (as the specification states it): a round that follows a round with a
\* CAPTCHA_ERROR or a CAPTCHA_EXPIRED outcome runs under a captcha different from
\* the one that round used.
C3_NextRoundUsesNewCaptcha ==
    (InRound /\ (prev_round.captcha # {} \/ prev_round.expired))
        => captcha_text # prev_round.cred

\* C4 (as the specification states it): idle sessions plus sessions in flight
\* never exceed the hard cap max_workers + 16.
C4_PoolWithinHardCap ==
    Len(session_pool) + inflight_sessions <= hard_cap(max_workers)

\* C5: a task of register_single_attempt holds no session before its
\* get_session_from_pool returns; from then until it ends it has acquired once,
\* released nothing, and its session is not in the idle pool; when it has ended --
\* by any outcome, TIMEOUT and EXCEPTION included -- it has acquired once and
\* released once, and the session it returned is the one it acquired.
C5_AcquireMatchedByOneRelease ==
    \A k \in DOMAIN tasks :
        LET task == tasks[k]
        IN  /\ task.pos \in {"pool_check", "cap_check", "stop_check"} =>
                  task.acquired = 0 /\ task.released = 0
            /\ task.pos = "request" =>
                  /\ task.acquired = 1 /\ task.released = 0
                  /\ task.session # 0
                  /\ task.session \notin Range(session_pool)
            /\ task.pos = "done" =>
                  /\ task.acquired = 1 /\ task.released = 1
                  /\ task.returned = task.session

\* one task ended by an exception and one by a timeout, both after releasing
C5_Witness ==
    /\ \E k \in DOMAIN tasks :
          /\ tasks[k].pos = "done" /\ tasks[k].exit = "EXCEPTION"
          /\ tasks[k].released = 1 /\ tasks[k].returned # 0
    /\ \E k \in DOMAIN tasks :
          /\ tasks[k].pos = "done" /\ tasks[k].exit = "TIMEOUT"
          /\ tasks[k].released = 1

\* C6: when register_all_profiles_parallel has returned from a call that had
\* eligible profiles and in which every request was answered SUCCESS, the value
\* it returned maps exactly the eligible profiles, each to True, and the pair is
\* not in slot_full_pairs.
C6_AllSuccessAllTrue ==
    (pc = "for_head" /\ eligible_profiles # << >> /\ only_success) =>
        /\ DOMAIN results = Range(eligible_profiles)
        /\ \A p \in DOMAIN results : results[p] = TRUE
        /\ Pair \notin slot_full_pairs

\* the call for pair (67, 101) with three profiles has returned all True
C6_Witness ==
    /\ pc = "for_head" /\ only_success
    /\ Pair = << 67, 101 >>
    /\ Len(eligible_profiles) = 3
    /\ \A p \in Range(eligible_profiles) : p \in DOMAIN results /\ results[p]
    /\ slot_full_pairs = {}

\* C7: after the evaluation of a round in which some profile X was answered
\* SLOT_FULL, the pair is in slot_full_pairs and the call dispatches nothing more
\* (no round, no task); when it has returned, the returned map holds False for X
\* and has no entry for the profiles that were still pending.
C7_SlotFullEndsCall ==
    (prev_round.slot_full # {} /\ pc # "enter") =>
        /\ Pair \in slot_full_pairs
        /\ pc \in {"get_session", "fetching", "for_head"}
        /\ tasks = << >>
        /\ pc = "for_head" =>
              /\ \A x \in prev_round.slot_full :
                    x \in DOMAIN results /\ results[x] = FALSE
              /\ Range(pending_profiles) = prev_round.retry
              /\ \A p \in prev_round.retry : p \notin DOMAIN results

\* the call has returned after SLOT_FULL with both a captcha-error profile and a
\* transiently failed profile still pending
C7_Witness ==
    /\ pc = "for_head"
    /\ prev_round.slot_full # {}
    /\ prev_round.captcha # {}
    /\ prev_round.retry \ prev_round.captcha # {}
    /\ \A p \in Range(pending_profiles) : p \notin DOMAIN results

RECURSIVE Flatten(_)
Flatten(ss) == IF ss = << >> THEN << >> ELSE Head(ss) \o Flatten(Tail(ss))

\* C8: the chunks of a call of register_batch_with_shared_captcha, put end to end,
\* are the pending list (order kept, every profile in exactly one chunk); with
\* more profiles than workers every chunk has max_workers profiles except the
\* last, which has the remainder when that is not zero; otherwise there is one
\* chunk.
C8_ChunksPartition ==
    pc = "chunk_head" =>
        LET n == Len(pending_profiles)
            w == max_workers
        IN  /\ Flatten(chunks) = pending_profiles
            /\ IF n > w
               THEN /\ Len(chunks) = (n + w - 1) \div w
                    /\ \A k \in DOMAIN chunks :
                          Len(chunks[k]) = IF k < Len(chunks) \/ n % w = 0
                                           THEN w ELSE n % w
               ELSE chunks = << pending_profiles >>

\* 20 profiles and 8 workers give chunks of 8, 8 and 4
C8_Witness ==
    /\ pc = "chunk_head"
    /\ Len(pending_profiles) = 20 /\ max_workers = 8
    /\ Len(chunks) = 3
    /\ Len(chunks[1]) = 8 /\ Len(chunks[2]) = 8 /\ Len(chunks[3]) = 4

\* C9: every task of a round carries the round's captcha, and when the chunk
\* loop has ended every pending profile has a result, which is CAPTCHA_EXPIRED
\* only if the captcha has reached the safety age -- so a CAPTCHA_ERROR in an
\* earlier chunk does not stop the later chunks; and a round that follows a round
\* with a CAPTCHA_ERROR runs under another captcha for exactly the profiles of
\* that round whose outcome was not final.
C9_CaptchaErrorRetriesAll ==
    /\ pc = "collect" => \A k \in DOMAIN tasks : tasks[k].captcha = captcha_text
    /\ pc = "evaluate" =>
          \A p \in Range(pending_profiles) :
              /\ p \in DOMAIN batch_results
              /\ batch_results[p].error_type = "CAPTCHA_EXPIRED" =>
                    now - captcha_timestamp >= SAFETY_TTL
    /\ (InRound /\ prev_round.captcha # {}) =>
          /\ captcha_text # prev_round.cred
          /\ Range(pending_profiles) = prev_round.retry

\* the second chunk of the round that follows a captcha error is running, for a
\* pending list that also holds a profile that failed for another reason
C9_Witness ==
    /\ pc = "collect" /\ chunk_idx = 2 /\ now = 0
    /\ prev_round.captcha # {}
    /\ prev_round.retry \ prev_round.captcha # {}
    /\ \E p \in DOMAIN batch_results : batch_results[p].error_type = "CAPTCHA_ERROR"
    /\ \E k \in DOMAIN tasks : tasks[k].pos = "request"

\* C10: a captcha found 60 seconds old or older at the head of the retry loop is
\* not the captcha of any round that runs from then on, and no task carries it.
C10_StaleCaptchaNeverUsed ==
    /\ InRound => captcha_text \notin stale_captchas
    /\ \A k \in DOMAIN tasks : tasks[k].captcha \notin stale_captchas

\* a request is in flight under the captcha fetched after the first went stale
C10_Witness ==
    /\ pc = "collect"
    /\ stale_captchas # {}
    /\ now - captcha_timestamp < SAFETY_TTL
    /\ \E k \in DOMAIN tasks :
          tasks[k].pos = "request" /\ tasks[k].captcha = captcha_text

\* worker k is inside the while loop of get_session_from_pool
Polling(k) == k \in DOMAIN tasks /\ tasks[k].pos \in {"cap_check", "stop_check"}
\* worker k is inside get_session_from_pool
Acquiring(k) ==
    k \in DOMAIN tasks /\ tasks[k].pos \in {"pool_check", "cap_check", "stop_check"}

\* C11 (as the specification states it): a caller polling in get_session_from_pool
\* returns with a session once a session has been released, that is, once the
\* idle pool is not empty.
C11_WaiterServedAfterRelease ==
    \A k \in 1..2 : (Polling(k) /\ session_pool # << >>) ~> ~ Polling(k)

\* C12: with stop_event set a worker inside get_session_from_pool leaves it,
\* whatever idle + inflight is and without any release; when it leaves through
\* the stop_event branch it returns a session created for it, inflight grows by
\* one and the idle pool is untouched.
C12_StopBypassesCap ==
    /\ \A k \in 1..2 : (stop_event /\ Acquiring(k)) ~> ~ Acquiring(k)
    /\ [][\A k \in DOMAIN tasks :
            (stop_event /\ tasks[k].pos = "stop_check"
               /\ k \in DOMAIN tasks' /\ tasks'[k].pos = "request")
            => /\ tasks'[k].session = next_session
               /\ next_session' = next_session + 1
               /\ inflight_sessions' = inflight_sessions + 1
               /\ session_pool' = session_pool]_vars

\* a worker holds a session although idle + inflight was at the cap: the total
\* is now above it
C12_Witness ==
    /\ stop_event
    /\ \E k \in DOMAIN tasks : tasks[k].pos = "request"
    /\ Len(session_pool) + inflight_sessions > hard_cap(max_workers)

\* C13: the step that runs the eligibility filter leaves the tracking store as it
\* was, and the list it produced is the list the filter gives when it is
\* evaluated again in the state the step leaves behind.
C13_FilterReadOnlyIdempotent ==
    [][(pc = "enter" /\ pc' \in {"get_session", "for_head"}) =>
          /\ UNCHANGED trackingVars
          /\ eligible_profiles' = EligibleProfiles(profiles, date_id, session_id)
          /\ eligible_profiles' = EligibleProfiles(profiles, date_id, session_id)'
      ]_vars

\* the filter has let some profiles through and held others back
C13_Witness ==
    /\ pc = "get_session"
    /\ eligible_profiles # << >>
    /\ Range(eligible_profiles) # Range(profiles)
    /\ successful_pairs_set # {}

\* C14: when run is given a target instant T and an offset k, the first captcha
\* fetch of the run starts k seconds before T, so the main thread is in
\* get_session_from_pool or get_fresh_captcha for the first captcha only at
\* instants from T - k up to T, before the countdown has let the registration go.
C14_FirstFetchBeforeDeadline ==
    (deadline # 0 /\ pc \in {"get_session", "fetching"} /\ captcha_text = 0)
        => (fetch_captcha_at <= now /\ now < deadline)

\* C15: once stop_event is set the main thread starts no further round of the
\* retry loop ("while pending_profiles" is not entered again) and no further
\* attempt of get_fresh_captcha for the pair it is working on.
C15_StopEndsRoundsAndFetches ==
    [][stop_event =>
          /\ ~ (pc = "loop_head" /\ retry_round' = retry_round + 1)
          /\ ~ (pc = "fetching" /\ pc' # "cleanup" /\
                  (attempt' = attempt + 1 \/ pc' # "fetching"))]_vars

\* C16: on every exit of run after the resources were created, teardown goes in
\* order: once executor.shutdown has returned no task is left running; once the
\* logger has been dealt with the queue is empty (every entry accepted has been
\* written) and the logger thread has ended; after the pooled sessions were
\* closed the idle pool is empty.
C16_TeardownInOrder ==
    /\ pc \in {"cleanup_logger", "cleanup_thread", "cleanup_sessions", "exited"}
          => tasks = << >>
    /\ pc \in {"cleanup_sessions", "exited"}
          => (log_queue = 0 /\ logger_thread = "stopped")
    /\ pc = "exited" => session_pool = << >>

\* C17: log_message never blocks and never raises: whenever it is called it
\* returns, and when the queue holds LogQueueSize entries the entry is dropped and
\* the queue is as before, otherwise the queue holds exactly one entry more; the
\* queue never holds more than LogQueueSize entries.
C17_LogMessageDropsWhenFull ==
    /\ [](pc = "log" => ENABLED LogCall)
    /\ [](log_queue <= LogQueueSize)
    /\ [][(pc = "log" /\ pc' = "logged") =>
            /\ log_queue = LogQueueSize => log_queue' = log_queue
            /\ log_queue < LogQueueSize => log_queue' = log_queue + 1
            /\ UNCHANGED << logger_thread, stop_event >>]_vars

C17_Witness ==
    pc = "logged" /\ log_queue = LogQueueSize /\ logger_thread = "running"

\* the tags of classify_error in the order of the claim, with the indicator list
\* each stands for
Precedence ==
    << <<"success", "SUCCESS">>, <<"captcha_error", "CAPTCHA_ERROR">>,
       <<"slot_full", "SLOT_FULL">>, <<"already_registered", "ALREADY_REGISTERED">>,
       <<"server_error", "SERVER_ERROR">>, <<"server_closed", "SERVER_CLOSED">>,
       <<"connection_error", "CONNECTION_ERROR">> >>
Answered(k) ==
    k \in DOMAIN tasks /\ tasks[k].pos = "done" /\ tasks[k].response.kind = "http"

\* C18: for a response with status 200, an empty body gives EMPTY_RESPONSE; a
\* body with matches in several indicator lists gives the tag that comes first
\* in the order SUCCESS, CAPTCHA_ERROR, SLOT_FULL, ALREADY_REGISTERED,
\* SERVER_ERROR, SERVER_CLOSED, CONNECTION_ERROR; a body with no match gives
\* UNKNOWN_ERROR.
C18_FirstMatchingRuleWins ==
    \A k \in DOMAIN tasks :
        (Answered(k) /\ tasks[k].response.status = 200) =>
            LET body == tasks[k].response.body
                hits == { i \in DOMAIN Precedence : Precedence[i][1] \in body.marks }
            IN  /\ body.empty => tasks[k].exit = "EMPTY_RESPONSE"
                /\ (~ body.empty /\ hits = {}) => tasks[k].exit = "UNKNOWN_ERROR"
                /\ (~ body.empty /\ hits # {}) =>
                      \E i \in hits : /\ \A j \in hits : i <= j
                                       /\ tasks[k].exit = Precedence[i][2]

C18_Witness ==
    /\ \E k \in DOMAIN tasks :
          /\ Answered(k) /\ tasks[k].response.status = 200
          /\ tasks[k].response.body.marks = {"slot_full", "already_registered"}
          /\ tasks[k].exit = "SLOT_FULL"

\* C19: a response whose status is not 200 is classified by the status alone,
\* whatever its body holds: 500 gives SERVER_500, 503 gives SERVER_503, every
\* other status gives HTTP_ERROR, and never SUCCESS.
C19_StatusDecidesBeforeBody ==
    \A k \in DOMAIN tasks :
        (Answered(k) /\ tasks[k].response.status # 200) =>
            /\ tasks[k].exit # "SUCCESS"
            /\ tasks[k].exit =
                  (IF tasks[k].response.status = 500 THEN "SERVER_500"
                   ELSE IF tasks[k].response.status = 503 THEN "SERVER_503"
                   ELSE "HTTP_ERROR")

C19_Witness ==
    \E k \in DOMAIN tasks :
        /\ Answered(k) /\ tasks[k].response.status = 500
        /\ "success" \in tasks[k].response.body.marks
        /\ "captcha_error" \in tasks[k].response.body.marks
        /\ tasks[k].exit = "SERVER_500"

\* C20: get_fresh_captcha has no attempt cap and hands back no failure.  While
\* it runs another attempt can always start, after failed attempts as well (as
\* far as MaxAttempts follows them); it is left, other than by an interrupt, only
\* with a new captcha whose text has exactly five characters and whose timestamp
\* is the clock at the return (the refresh of an exhausted pair drops that
\* captcha at once and goes on to the next pair).
C20_FetchRetriesUntilFiveChars ==
    /\ [](pc = "fetching" => ENABLED FetchCaptcha)
    /\ []((pc = "fetching" /\ attempt < MaxAttempts)
            => ENABLED (FetchCaptcha /\ attempt' = attempt + 1))
    /\ [](captcha_text # 0 => captcha_len = 5)
    /\ [][(pc = "fetching" /\ pc' \notin {"fetching", "cleanup"}) =>
            \/ /\ captcha_text' = captcha_text + 1
               /\ captcha_len' = 5
               /\ captcha_timestamp' = now'
            \/ /\ fetch_site = "refresh" /\ is_slot_full(date_id, session_id)
               /\ pc' = "for_head"]_vars

\* a later fetch of a call, MaxAttempts failed attempts into it, the captcha of
\* the fetch before still in hand
C20_Witness ==
    /\ pc = "fetching" /\ attempt = MaxAttempts
    /\ captcha_text = 1 /\ captcha_len = 5 /\ now > captcha_timestamp

\* ---------------------------------------------------------------------- C21
\* C21: for a target instant that parses and is not yet past when the wait
\* begins, wait_for_registration_time returns only when stop_event is set or
\* remaining <= 0, and, time.sleep being exact, at most one millisecond after
\* the deadline.
C21_CountdownReturnsAtDeadlineOrStop ==
    [][ (pc = "countdown" /\ pc' # "countdown" /\ deadline # 0)
            => /\ stop_event \/ remaining <= 0
               /\ remaining >= - (Micro \div 1000) ]_vars

\* the countdown has returned past the deadline without a stop
C21_Witness ==
    /\ pc = "for_head" /\ retry_round = 0
    /\ deadline # 0 /\ ~ stop_event
    /\ remaining < 0

\* ---------------------------------------------------------------------- C22
\* C22: from the call of register_batch_with_shared_captcha to its return the
\* captcha is not replaced, and every task submitted for a chunk carries it.
C22_OneCaptchaPerRound ==
    [][ (pc \in {"chunk_head", "collect"} /\ pc' \in {"chunk_head", "collect", "evaluate"})
            => /\ captcha_text' = captcha_text
               /\ captcha_timestamp' = captcha_timestamp
               /\ \A k \in DOMAIN tasks' : tasks'[k].captcha = captcha_text ]_vars

\* a later chunk of a round is in flight with a captcha that is not the first one
C22_Witness ==
    /\ pc = "collect" /\ chunk_idx >= 2
    /\ captcha_text >= 2
    /\ \E k \in DOMAIN tasks : tasks[k].pos = "request" /\ tasks[k].captcha = captcha_text

\* ---------------------------------------------------------------------- C23
\* C23: while the dispatcher is at the head of the chunk loop no task is
\* running and every profile of the chunks before chunk_idx has its outcome in
\* results; the tasks that run during the collection are those of chunk
\* chunk_idx alone.
ChunksCollectedBefore(n) ==
    \A j \in 1..Min(n - 1, Len(chunks)) : \A p \in Range(chunks[j]) :
        DictGet(batch_results, p, NoResult) # NoResult

C23_ChunksNeverOverlap ==
    /\ pc = "chunk_head" => tasks = << >> /\ ChunksCollectedBefore(chunk_idx)
    /\ pc = "collect" =>
          /\ ChunksCollectedBefore(chunk_idx)
          /\ Len(tasks) = Len(chunks[chunk_idx])
          /\ \A k \in DOMAIN tasks : tasks[k].profile = chunks[chunk_idx][k]

\* the second chunk runs after the first one was collected
C23_Witness ==
    /\ pc = "collect" /\ chunk_idx = 2 /\ Len(chunks) >= 2
    /\ ChunksCollectedBefore(2)
    /\ \E k \in DOMAIN tasks : tasks[k].pos = "request"

\* ---------------------------------------------------------------------- C24
\* C24 (as the specification states it): the idle pool never holds more than
\* the soft cap max_workers + 8 sessions, from init_session_pool as run() calls
\* it through every acquire and release.
C24_IdleWithinSoftCap ==
    Len(session_pool) <= max_pool_size(max_workers)

\* ---------------------------------------------------------------------- C25
\* C25: with stop_event unset, the workers of a chunk and the main thread's
\* captcha session being the only users of the pool, no caller of
\* get_session_from_pool finds len(session_pool) + inflight_sessions at the
\* hard cap: none reaches the stop check and the 5ms sleep of the loop.
C25_NoHardCapWaitInNormalUse ==
    ~ stop_event =>
        /\ main_pos # "stop_check"
        /\ \A k \in DOMAIN tasks : tasks[k].pos # "stop_check"

\* the idle pool is empty, every worker and the main thread hold a session, the
\* last of them created by the loop of get_session_from_pool
C25_Witness ==
    /\ pc = "pool" /\ ~ stop_event
    /\ session_pool = << >>
    /\ captcha_session # 0
    /\ Len(tasks) = max_workers
    /\ \A k \in DOMAIN tasks : tasks[k].pos = "request"
    /\ inflight_sessions = max_workers + 1

\* ---------------------------------------------------------------------- C26
\* the main thread is inside register_all_profiles_parallel
InCall ==
    pc \in {"enter", "get_session", "fetching", "loop_head", "chunk_head", "collect",
            "evaluate"}

\* the rounds followed are used up and a profile still pending was given a
\* retryable outcome in the last of them: the case the fairness assumption of
\* the claim excludes
RetryableInEveryRound ==
    /\ pc = "loop_head" /\ retry_round = MaxRounds
    /\ Range(pending_profiles) \cap (prev_round.retry \cup prev_round.captcha) # {}

\* C26: register_all_profiles_parallel returns only with an empty pending list
\* or with the pair in slot_full_pairs; and when every fetch of a captcha comes
\* to an end and no profile is given retryable outcomes round after round, a
\* call that was entered returns.
C26_ReturnsExactlyWhenDone ==
    /\ [][ (InCall /\ pc' = "for_head")
              => (pending_profiles' = << >> \/ Pair \in slot_full_pairs') ]_vars
    /\ InCall ~> (pc = "for_head" \/ RetryableInEveryRound)

\* the call has returned, after a round with a failure, with nothing pending
\* and the pair not exhausted
C26_Witness ==
    /\ pc = "for_head" /\ pair_idx > 1
    /\ prev_round # NoPrevRound /\ ~ only_success
    /\ pending_profiles = << >>
    /\ Pair \notin slot_full_pairs

\* ---------------------------------------------------------------------- C27
\* the chunk loop is at a chunk whose captcha is 55 seconds old or older
AtExpiredChunk ==
    /\ pc = "chunk_head" /\ chunk_idx <= Len(chunks)
    /\ now - captcha_timestamp >= SAFETY_TTL

\* C27 (as the specification states it): a chunk reached with a captcha of 55
\* seconds or more gets CAPTCHA_EXPIRED for each of its profiles, without a
\* task, a session or a request; and after a round with such an outcome
\* register_batch_with_shared_captcha is called again only with another captcha.
C27_ExpiredChunkSkippedThenRefreshed ==
    /\ [][ (AtExpiredChunk /\ pc' \in {"chunk_head", "collect", "evaluate"}
                /\ << pc, chunk_idx, tasks, batch_results >>' #
                       << pc, chunk_idx, tasks, batch_results >>)
              => /\ \A p \in Range(chunks[chunk_idx]) :
                       DictGet(batch_results', p, NoResult) = ExpiredResult
                 /\ chunk_idx' = chunk_idx + 1
                 /\ tasks' = << >> /\ tasks = << >>
                 /\ UNCHANGED poolVars ]_vars
    /\ [][ (pc \in {"loop_head", "fetching"} /\ pc' = "chunk_head"
                /\ prev_round.expired)
              => captcha_text' # prev_round.cred ]_vars

\* ---------------------------------------------------------------------- C28
\* how often each profile occurs in a list
Occurrences(ps) ==
    [p \in Range(ps) |-> Cardinality({ i \in DOMAIN ps : ps[i] = p })]

\* the profiles of ps, in order, whose outcome in br is not SUCCESS, SLOT_FULL
\* or ALREADY_REGISTERED
Retryable(ps, br) ==
    SelectSeq(ps, LAMBDA p : DictGet(br, p, NoResult).error_type \notin FinalTags)

\* C28: the evaluation of a round leaves pending -- in pending_profiles, or in
\* next_pending and captcha_error_profiles until the new captcha is there --
\* exactly the round's pending profiles with a retryable outcome, none of them
\* with an entry in final_results; the step after the captcha refresh makes
\* these two lists the pending list; no other step of the retry loop changes
\* the pending list, which therefore never grows.
C28_PendingIsRetryableOnly ==
    /\ [][ (pc = "evaluate" /\ pc' \in {"get_session", "loop_head", "for_head"})
              => LET kept == Retryable(pending_profiles, batch_results)
                     carried == IF pc' = "get_session"
                                THEN next_pending' \o captcha_error_profiles'
                                ELSE pending_profiles'
                     final == IF pc' = "for_head" THEN results' ELSE final_results'
                 IN  /\ Occurrences(carried) = Occurrences(kept)
                     /\ Range(kept) \cap DOMAIN final = {}
                     /\ \A p \in Range(pending_profiles) \ Range(kept) :
                            p \in DOMAIN final ]_vars
    /\ [][ (pc = "fetching" /\ fetch_site = "refresh"
                /\ pc' \in {"loop_head", "for_head"})
              => Occurrences(pending_profiles') =
                    Occurrences(next_pending \o captcha_error_profiles) ]_vars
    /\ [][ (pc \in {"loop_head", "chunk_head", "collect", "evaluate"}
                \/ (pc \in {"get_session", "fetching"} /\ fetch_site # "initial"))
              => /\ Len(pending_profiles') <= Len(pending_profiles)
                 /\ Range(pending_profiles') \subseteq Range(pending_profiles)
                 /\ (pc # "evaluate" /\ pc' \notin {"loop_head", "for_head", "cleanup"})
                        => pending_profiles' = pending_profiles ]_vars

\* after a round some profiles are left pending and some are not
C28_Witness ==
    /\ pc = "loop_head" /\ retry_round >= 1
    /\ pending_profiles # << >>
    /\ Len(pending_profiles) < Len(eligible_profiles)
    /\ prev_round.retry = Range(pending_profiles)
    /\ prev_round.captcha # {}

\* ---------------------------------------------------------------------- C29
\* the profiles of the round whose outcome carries the given tag
WithTag(tag) ==
    { p \in Range(pending_profiles) :
          DictGet(batch_results, p, NoResult).error_type = tag }

\* the tracking store holds the record that ends the retries of profile p for
\* the pair of the call
Recorded(p) ==
    \/ /\ << p, date_id, session_id >> \in successful_pairs_set
       /\ Pair \in DictGet(profile_successful_pairs, p, {})
       /\ date_id \in DictGet(already_registered_profiles, p, {})
    \/ date_id \in DictGet(already_registered_profiles, p, {})
    \/ Pair \in slot_full_pairs

\* the retry loop is running (the first captcha is there)
InRetryLoop ==
    \/ pc \in {"loop_head", "chunk_head", "collect", "evaluate"}
    \/ pc \in {"get_session", "fetching"} /\ fetch_site # "initial"

\* C29: the evaluation of a round adds to the tracking store exactly the
\* records of the round's terminal outcomes -- for SUCCESS the triple, the pair
\* of the profile and the date of the profile, for SLOT_FULL the pair, for
\* ALREADY_REGISTERED the date of the profile -- none of which was there
\* before; no other step of the program writes to the store; and while the
\* retry loop runs every eligible profile that is no longer pending has its
\* record.
C29_TerminalOutcomeRecordedOnce ==
    /\ [][ (pc = "evaluate" /\ pc' \in {"get_session", "loop_head", "for_head"})
              => LET ok == WithTag("SUCCESS")
                     full == WithTag("SLOT_FULL")
                     reg == WithTag("ALREADY_REGISTERED")
                 IN  /\ successful_pairs_set' = successful_pairs_set \cup
                            { << p, date_id, session_id >> : p \in ok }
                     /\ successful_pairs_set \cap
                            { << p, date_id, session_id >> : p \in ok } = {}
                     /\ \A p \in Range(profiles) :
                            /\ DictGet(profile_successful_pairs', p, {}) =
                                  DictGet(profile_successful_pairs, p, {}) \cup
                                     (IF p \in ok THEN {Pair} ELSE {})
                            /\ DictGet(already_registered_profiles', p, {}) =
                                  DictGet(already_registered_profiles, p, {}) \cup
                                     (IF p \in ok \cup reg THEN {date_id} ELSE {})
                            /\ p \in ok \cup reg =>
                                  date_id \notin DictGet(already_registered_profiles, p, {})
                     /\ slot_full_pairs' = slot_full_pairs \cup
                            (IF full # {} THEN {Pair} ELSE {})
                     /\ Pair \notin slot_full_pairs ]_vars
    /\ [][ pc # "evaluate" => UNCHANGED trackingVars ]_vars
    /\ [](InRetryLoop =>
             \A p \in Range(eligible_profiles) \ Range(pending_profiles) : Recorded(p))

\* a call has ended with a record of each kind made for its pair
C29_Witness ==
    /\ pc = "for_head" /\ pair_idx > 1
    /\ Pair \in slot_full_pairs
    /\ \E p \in Range(profiles) : << p, date_id, session_id >> \in successful_pairs_set
    /\ \E p \in Range(profiles) :
          /\ date_id \in DictGet(already_registered_profiles, p, {})
          /\ << p, date_id, session_id >> \notin successful_pairs_set

\* ---------------------------------------------------------------------- C30
\* what the dispatcher holds for a finished task: the value the task returned,
\* or EXCEPTION when the task raised
TaskOutcome(task) ==
    IF task.exit = "raised" THEN Outcome(FALSE, "EXCEPTION")
    ELSE AttemptResult(task.response)

\* task k has failed: its request timed out or raised, or its
\* get_session_from_pool raised
Failed(task) ==
    task.pos = "done" /\ (task.exit = "raised" \/ task.response.kind \in {"timeout", "error"})

\* C30: a task whose request raises, or whose get_session_from_pool raises,
\* ends with EXCEPTION (TIMEOUT for a request timeout) stored for its own
\* profile, and the step changes no other task; every task of a chunk is done
\* and has its own outcome in results when the chunk is left; results holds an
\* outcome for every pending profile when register_batch_with_shared_captcha
\* returns; and the profile of a failed task is carried into the next round
\* without an entry in final_results.
C30_TaskFailureStaysLocal ==
    /\ [][ \A k \in DOMAIN tasks :
              (pc = "collect" /\ k \in DOMAIN tasks' /\ tasks[k].pos # "done"
                  /\ Failed(tasks'[k]))
              => /\ DictGet(batch_results', tasks[k].profile, NoResult) =
                       Outcome(FALSE, IF tasks'[k].response.kind = "timeout"
                                      THEN "TIMEOUT" ELSE "EXCEPTION")
                 /\ \A j \in DOMAIN tasks \ {k} :
                       /\ tasks'[j] = tasks[j]
                       /\ DictGet(batch_results', tasks[j].profile, NoResult) =
                             DictGet(batch_results, tasks[j].profile, NoResult)
                 /\ pc' = "collect" ]_vars
    /\ [][ (pc = "collect" /\ pc' = "chunk_head")
              => \A k \in DOMAIN tasks :
                    /\ tasks[k].pos = "done"
                    /\ DictGet(batch_results, tasks[k].profile, NoResult) =
                          TaskOutcome(tasks[k]) ]_vars
    /\ [](pc = "evaluate" =>
             \A p \in Range(pending_profiles) :
                 DictGet(batch_results, p, NoResult) # NoResult)
    /\ [][ (pc = "evaluate" /\ pc' \in {"get_session", "loop_head", "for_head"})
              => \A p \in WithTag("EXCEPTION") \cup WithTag("TIMEOUT") :
                    /\ p \in Range(IF pc' = "get_session" THEN next_pending'
                                                          ELSE pending_profiles')
                    /\ p \notin DOMAIN (IF pc' = "for_head" THEN results'
                                                           ELSE final_results') ]_vars

\* in a chunk of two one task has failed in get_session_from_pool and its
\* sibling has got an answer of its own
C30_Witness ==
    /\ pc = "collect" /\ Len(tasks) = 2
    /\ \E k, j \in DOMAIN tasks :
          /\ tasks[k].exit = "raised"
          /\ batch_results[tasks[k].profile] = Outcome(FALSE, "EXCEPTION")
          /\ tasks[j].pos = "done" /\ tasks[j].response.kind = "http"
          /\ batch_results[tasks[j].profile] = AttemptResult(tasks[j].response)

\* ---------------------------------------------------------------------- C31
\* the pair of the call is in slot_full_pairs, or can_profile_register lets no
\* profile through for it
NothingToRegister ==
    \/ Pair \in slot_full_pairs
    \/ \A i \in DOMAIN profiles : ~ can_profile_register(profiles[i], date_id, session_id)

\* C31: register_all_profiles_parallel entered for a pair that is exhausted or
\* has no eligible profile returns {} in the same step: no session leaves the
\* pool, no captcha is fetched, no task is submitted, nothing is logged and the
\* tracking store is as before.
C31_NothingEligibleReturnsEmpty ==
    [][ (pc = "enter" /\ NothingToRegister)
            => /\ pc' = "for_head"
               /\ results' = EmptyDict
               /\ pending_profiles' = << >>
               /\ tasks' = << >> /\ captcha_session' = 0 /\ captcha_text' = 0
               /\ UNCHANGED << trackingVars, poolVars, logVars >> ]_vars

\* a call has returned at once although its pair is not exhausted: every
\* profile was held back by a record of its own
C31_Witness ==
    /\ pc = "for_head" /\ pair_idx > 1
    /\ Pair \notin slot_full_pairs
    /\ eligible_profiles = << >>
    /\ results = EmptyDict
    /\ inflight_sessions = 0

\* ---------------------------------------------------------------------- C32
\* C32 (as the specification states it): once the pair of the call is in
\* slot_full_pairs the call neither fetches a captcha nor starts or runs a round.
C32_ExhaustedPairStopsAtOnce ==
    pc \in {"get_session", "fetching", "loop_head", "chunk_head", "collect"}
        => Pair \notin slot_full_pairs

\* ---------------------------------------------------------------------- C33
\* C33 (as the specification states it): the evaluation of a round calls
\* log_message once for each outcome it evaluates; the logger takes the entries
\* from the queue one at a time and writes each; and every entry the queue has
\* accepted is written: none is left in the queue when the logger thread has
\* ended.
C33_EveryAcceptedEntryWritten ==
    /\ [][ (pc = "evaluate" /\ pc' \in {"get_session", "loop_head", "for_head"})
              => log_queue' = Min(log_queue + Len(pending_profiles), LogQueueSize) ]_vars
    /\ [][ (log_queue' < log_queue)
              => (logger_thread = "running" /\ log_queue' = log_queue - 1) ]_vars
    /\ [](logger_thread = "stopped" => log_queue = 0)

\* ------------------------------------------------------------ run() from its start
\* run() from its first line: the inputs are loaded, the logger thread, the
\* executor and the session pool are set up, run_registration_algorithm runs,
\* and every way out goes through "finally".  The list of pairs that
\* load_scan_results leaves after its filter of odd sessions may be empty.
ExitProfileLists == { <<1, 2>> }
ExitPhienLists == { << >>, << <<67, 101>> >> }

\* __init__: nothing is loaded, no executor, no logger thread, an empty pool
InitExit ==
    /\ profiles = << >>
    /\ phien_data = << >>
    /\ max_workers \in WorkerChoices
    /\ stop_event = FALSE
    /\ slot_full_pairs = {}
    /\ already_registered_profiles = EmptyDict
    /\ profile_successful_pairs = EmptyDict
    /\ successful_pairs_set = {}
    /\ session_pool = << >>
    /\ inflight_sessions = 0
    /\ next_session = 1
    /\ now = 0 /\ now_us = 0
    /\ iteration = 0
    /\ pair_idx = 0
    /\ results = EmptyDict
    /\ tasks = << >>
    /\ date_id = 0 /\ session_id = 0
    /\ eligible_profiles = << >> /\ pending_profiles = << >>
    /\ captcha_session = 0
    /\ prev_round = NoPrevRound /\ only_success = TRUE /\ stale_captchas = {}
    /\ deadline = 0 /\ fetch_captcha_offset = DefaultOffset
    /\ log_queue = 0 /\ logger_thread = "none"
    /\ NoFrame
    /\ pc = "load"

\* run(): load_scan_results, load_profiles or init_ocr_model returns False and
\* run() returns False from inside its try block: "finally" runs next
LoadFails ==
    /\ pc = "load"
    /\ pc' = "cleanup"
    /\ UNCHANGED << inputVars, logVars, stop_event, trackingVars, poolVars, now, now_us,
                    outerVars, callVars, captcha_session, frameVars, tasks,
                    historyVars >>

\* run(): the three loads succeed, then start_logger_thread, the executor,
\* init_session_pool, and the entry of run_registration_algorithm
LoadAndStart ==
    /\ pc = "load"
    /\ profiles' \in ExitProfileLists
    /\ phien_data' \in ExitPhienLists
    /\ logger_thread' = "running"
    /\ session_pool' = init_session_pool(run_pool_size(max_workers, profiles'))
    /\ next_session' = run_pool_size(max_workers, profiles') + 1
    /\ iteration' = 1
    /\ pair_idx' = 1
    /\ pc' = "for_head"
    /\ UNCHANGED << max_workers, deadline, fetch_captcha_offset, log_queue, stop_event,
                    trackingVars, inflight_sessions, now, now_us, results, callVars,
                    captcha_session, frameVars, tasks, historyVars >>

\* run(): "except Exception" for an exception that leaves the set-up of the
\* resources or the session acquisition of the main thread
\* (get_session_from_pool has no handler of its own): stop_event is set and
\* "finally" runs next
UnexpectedError ==
    /\ pc \in {"load", "get_session"}
    /\ stop_event' = TRUE
    /\ pc' = "cleanup"
    /\ ResetFrame
    /\ date_id' = 0 /\ session_id' = 0
    /\ eligible_profiles' = << >> /\ pending_profiles' = << >>
    /\ captcha_session' = 0
    /\ prev_round' = NoPrevRound /\ only_success' = TRUE /\ stale_captchas' = {}
    /\ iteration' = 0 /\ pair_idx' = 0 /\ results' = EmptyDict
    /\ UNCHANGED << inputVars, logVars, trackingVars, poolVars, now, now_us, tasks >>

NextExit ==
    \/ LoadFails
    \/ LoadAndStart
    \/ UnexpectedError
    \/ LoggerIdle /\ ForHead
    \/ LoggerIdle /\ RegisterEnter
    \/ LoggerIdle /\ MainGetSession
    \/ LoggerIdle /\ FetchCaptcha
    \/ LoggerIdle /\ LoopHead
    \/ LoggerIdle /\ ChunkHead
    \/ \E k \in DOMAIN tasks : LoggerIdle /\ TaskGetSession(k)
    \/ \E k \in DOMAIN tasks : LoggerIdle /\ TaskRequest(k)
    \/ LoggerIdle /\ ChunkJoin
    \/ LoggerIdle /\ Evaluate
    \/ LoggerIdle /\ Interrupt
    \/ LoggerIdle /\ StopSignal
    \/ LoggerIdle /\ Cleanup
    \/ LoggerWrite
    \/ LoggerExit

SpecExit == InitExit /\ [][NextExit]_vars

\* how far run() is into "finally": 0 before it, 1 at its start
CleanupStage(at) ==
    CASE at \in {"cleanup", "returned"} -> 1
      [] at = "cleanup_logger" -> 2
      [] at = "cleanup_thread" -> 3
      [] at = "cleanup_sessions" -> 4
      [] at = "exited" -> 5
      [] OTHER -> 0

\* ---------------------------------------------------------------------- C34
\* C34: run() reaches _cleanup_resources from its try block either with
\* stop_event set by the handler of an exception or interrupt, or by an early
\* return of the loading step (stop_event untouched), or after
\* run_registration_algorithm has returned; _cleanup_resources then goes through
\* its steps in order, never starts again, and run() ends only after its last
\* step.
C34_CleanupOnceOnEveryExit ==
    /\ [][ (CleanupStage(pc) = 0 /\ pc' = "cleanup")
              => \/ stop_event'
                 \/ pc = "load" /\ stop_event' = stop_event ]_vars
    /\ [][ (CleanupStage(pc) = 0 /\ pc' # pc) => CleanupStage(pc') \in {0, 1} ]_vars
    /\ [][ (CleanupStage(pc) >= 1 /\ pc' # pc) => CleanupStage(pc') > CleanupStage(pc) ]_vars
    /\ [][ pc' = "exited" => pc \in {"cleanup_sessions", "exited"} ]_vars
    /\ [][ pc = "exited" => UNCHANGED << pc, session_pool, stop_event >> ]_vars

\* run() has ended after an interrupt or an exception that came once the
\* resources were set up: the signal is set and the pool is empty
C34_Witness ==
    /\ pc = "exited"
    /\ stop_event
    /\ profiles # << >>
    /\ logger_thread = "stopped"
    /\ session_pool = << >>

\* ---------------------------------------------------------------------- C35
\* the tasks that hold a session: between the return of get_session_from_pool
\* and the "finally" of register_single_attempt
Holding == { k \in DOMAIN tasks : tasks[k].pos = "request" }

\* C35: a session held by a task is not in the idle pool, is held by no other
\* task and is not the session of the captcha fetch; the session of the captcha
\* fetch is not in the idle pool; the idle pool holds no session twice; and a
\* session comes into the idle pool only in the step in which its holder gives
\* it back.
C35_SessionHasOneOwner ==
    /\ [](\A k \in Holding :
            /\ tasks[k].session # 0
            /\ tasks[k].session \notin Range(session_pool)
            /\ tasks[k].session # captcha_session
            /\ \A j \in Holding : j # k => tasks[j].session # tasks[k].session)
    /\ [](captcha_session # 0 => captcha_session \notin Range(session_pool))
    /\ [](\A i, j \in DOMAIN session_pool : i # j => session_pool[i] # session_pool[j])
    /\ [][ \A id \in Range(session_pool') \ Range(session_pool) :
              \/ \E k \in Holding :
                    /\ tasks[k].session = id
                    /\ k \in DOMAIN tasks'
                    /\ tasks'[k].pos = "done"
              \/ captcha_session = id /\ captcha_session' = 0 ]_vars

\* two tasks and the captcha fetch hold three different sessions, not all of
\* them the session created last
C35_Witness ==
    /\ Cardinality(Holding) = 2
    /\ captcha_session # 0
    /\ \E k \in Holding : tasks[k].session < next_session - 1

\* ---------------------------------------------------------------------- C36
\* C36: in the evaluation of the round that brings the first SLOT_FULL for the
\* pair, every profile of the round answered SUCCESS -- before or after the
\* SLOT_FULL outcome in the pending list -- is put into the three success stores
\* and maps to True in the result of the call, and every profile answered
\* ALREADY_REGISTERED has the date put into already_registered_profiles and
\* maps to False; the result is the value returned when the call returns in
\* this step, and final_results otherwise.
C36_SlotFullRoundFullyEvaluated ==
    [][ (/\ pc = "evaluate"
         /\ pc' \in {"get_session", "loop_head", "for_head"}
         /\ Pair \notin slot_full_pairs
         /\ WithTag("SLOT_FULL") # {})
          => LET res == IF pc' = "for_head" THEN results' ELSE final_results'
             IN  /\ Pair \in slot_full_pairs'
                 /\ pc' # "loop_head"
                 /\ \A p \in WithTag("SUCCESS") :
                        /\ << p, date_id, session_id >> \in successful_pairs_set'
                        /\ Pair \in DictGet(profile_successful_pairs', p, {})
                        /\ date_id \in DictGet(already_registered_profiles', p, {})
                        /\ DictGet(res, p, FALSE) = TRUE
                 /\ \A p \in WithTag("ALREADY_REGISTERED") :
                        /\ date_id \in DictGet(already_registered_profiles', p, {})
                        /\ p \in DOMAIN res
                        /\ DictGet(res, p, TRUE) = FALSE ]_vars

\* the call has returned from a round whose first profile found the slot full,
\* whose second succeeded and whose third was registered already
C36_Witness ==
    /\ pc = "for_head" /\ pair_idx > 1
    /\ profiles = <<1, 2, 3>>
    /\ prev_round.slot_full = {1}
    /\ << 2, date_id, session_id >> \in successful_pairs_set
    /\ DictGet(results, 2, FALSE) = TRUE
    /\ date_id \in DictGet(already_registered_profiles, 3, {})
    /\ << 3, date_id, session_id >> \notin successful_pairs_set
    /\ DictGet(results, 3, TRUE) = FALSE
    /\ retry_round = 0 /\ iteration = 1

\* ---------------------------------------------------------------------- C37
\* the entries of a dictionary of sets are kept: every key stays, with a set
\* that holds what it held
DictGrows(before, after) ==
    \A k \in DOMAIN before : k \in DOMAIN after /\ before[k] \subseteq after[k]

\* C37: in every reachable state (p, d, s) is in successful_pairs_set exactly
\* when (d, s) is in profile_successful_pairs[p], and then d is in
\* already_registered_profiles[p]; and no step takes an entry out of
\* successful_pairs_set, profile_successful_pairs, already_registered_profiles
\* or slot_full_pairs.
C37_TrackingStoreConsistent ==
    /\ [](\A t \in successful_pairs_set :
            /\ << t[2], t[3] >> \in DictGet(profile_successful_pairs, t[1], {})
            /\ t[2] \in DictGet(already_registered_profiles, t[1], {}))
    /\ [](\A p \in DOMAIN profile_successful_pairs :
            \A ds \in profile_successful_pairs[p] :
                << p, ds[1], ds[2] >> \in successful_pairs_set)
    /\ [][ /\ successful_pairs_set \subseteq successful_pairs_set'
           /\ slot_full_pairs \subseteq slot_full_pairs'
           /\ DictGrows(profile_successful_pairs, profile_successful_pairs')
           /\ DictGrows(already_registered_profiles, already_registered_profiles') ]_vars

\* in the second iteration of the outer loop the store holds a success, a
\* profile registered for the date without a success, and the exhausted pair
C37_Witness ==
    /\ iteration = 2
    /\ Cardinality(successful_pairs_set) = 1
    /\ Cardinality(DOMAIN profile_successful_pairs) = 1
    /\ Cardinality(DOMAIN already_registered_profiles) = 2
    /\ slot_full_pairs # {}

\* ------------------------------------------------------------ several pairs
\* run_registration_algorithm over pairs of which two share their date.
DateProfileLists == { <<1, 2>> }
DatePhienLists == { << <<67, 101>>, <<68, 101>>, <<67, 103>> >> }

InitDates ==
    /\ profiles \in DateProfileLists
    /\ phien_data \in DatePhienLists
    /\ max_workers \in WorkerChoices
    /\ stop_event = FALSE
    /\ slot_full_pairs = {}
    /\ already_registered_profiles = EmptyDict
    /\ profile_successful_pairs = EmptyDict
    /\ successful_pairs_set = {}
    /\ session_pool = init_session_pool(run_pool_size(max_workers, profiles))
    /\ inflight_sessions = 0
    /\ next_session = run_pool_size(max_workers, profiles) + 1
    /\ now = 0 /\ now_us = 0
    /\ iteration = 1
    /\ pair_idx = 1
    /\ results = EmptyDict
    /\ tasks = << >>
    /\ date_id = 0 /\ session_id = 0
    /\ eligible_profiles = << >> /\ pending_profiles = << >>
    /\ captcha_session = 0
    /\ prev_round = NoPrevRound /\ only_success = TRUE /\ stale_captchas = {}
    /\ deadline = 0 /\ fetch_captcha_offset = DefaultOffset
    /\ log_queue = 0 /\ logger_thread = "running"
    /\ NoFrame
    /\ pc = "for_head"

NextDates ==
    \/ LoggerIdle /\ ForHead
    \/ LoggerIdle /\ RegisterEnter
    \/ LoggerIdle /\ MainGetSession
    \/ LoggerIdle /\ FetchCaptcha
    \/ LoggerIdle /\ LoopHead
    \/ LoggerIdle /\ ChunkHead
    \/ \E k \in DOMAIN tasks : LoggerIdle /\ TaskGetSession(k)
    \/ \E k \in DOMAIN tasks : LoggerIdle /\ TaskRequest(k)
    \/ LoggerIdle /\ ChunkJoin
    \/ LoggerIdle /\ Evaluate
    \/ LoggerWrite

SpecDates == InitDates /\ [][NextDates]_vars

\* ---------------------------------------------------------------------- C38
\* the dates for which profile p has a success on record
SucceededDates(p) == { t[2] : t \in { u \in successful_pairs_set : u[1] = p } }

\* C38: a profile has successes for at most one pair of a date; no task exists
\* for a profile against a pair of a date the profile has a success for; and no
\* round runs with such a profile in its pending list.
C38_OneSuccessPerDate ==
    /\ \A t, u \in successful_pairs_set :
          (t[1] = u[1] /\ t[2] = u[2]) => t[3] = u[3]
    /\ \A k \in DOMAIN tasks : tasks[k].date_id \notin SucceededDates(tasks[k].profile)
    /\ InRound => \A p \in Range(pending_profiles) : date_id \notin SucceededDates(p)

\* the call for the second pair of date 67 runs a request for profile 2 alone,
\* profile 1 having succeeded for pair (67, 101) and for pair (68, 101)
C38_Witness ==
    /\ pc = "collect"
    /\ Pair = << 67, 103 >>
    /\ << 1, 67, 101 >> \in successful_pairs_set
    /\ << 1, 68, 101 >> \in successful_pairs_set
    /\ pending_profiles = << 2 >>
    /\ \E k \in DOMAIN tasks : tasks[k].pos = "request" /\ tasks[k].profile = 2

\* ---------------------------------------------------------------------- C39
\* the main thread is between get_session_from_pool and return_session_to_pool
\* of a captcha fetch
FetchInProgress == captcha_session # 0

\* C39 (as the specification states it): inflight_sessions is the number of
\* sessions held by the tasks and by the captcha fetch of the main thread; it is
\* never negative; and it is 0 whenever no task holds a session and no captcha
\* fetch is in progress -- at the start of a round and when _cleanup_resources
\* begins as well, also after an interrupt that came during a captcha fetch.
C39_InflightCountsHeldSessions ==
    /\ inflight_sessions >= 0
    /\ inflight_sessions = Cardinality(Holding) + (IF FetchInProgress THEN 1 ELSE 0)
    /\ (Holding = {} /\ ~ FetchInProgress) => inflight_sessions = 0
    /\ pc = "chunk_head" /\ chunk_idx = 1 => inflight_sessions = 0
    /\ (pc = "cleanup" /\ Holding = {}) => inflight_sessions = 0

\* ---------------------------------------------------------------------- C40
\* C40: run_registration_algorithm returns only from the head of the for loop,
\* at a pair of the list, with stop_event set; at the head of the loops it goes
\* on whenever it does not return (for as many passes of "while True" as are
\* followed here), be the pair exhausted or every profile resolved, and what
\* makes it leave the head without returning is a pair that is not exhausted;
\* and with an empty list of pairs it neither returns nor enters a call,
\* whatever stop_event is.
C40_ReturnsOnlyOnStopAtForHead ==
    /\ [][ (pc # "returned" /\ pc' = "returned")
              => /\ pc = "for_head"
                 /\ stop_event
                 /\ pair_idx \in 1..Len(phien_data) ]_vars
    /\ [][ (pc = "for_head" /\ pc' = "enter")
              => /\ ~ stop_event
                 /\ pair_idx \in 1..Len(phien_data)
                 /\ ~ is_slot_full(phien_data[pair_idx][1], phien_data[pair_idx][2]) ]_vars
    /\ [](pc = "returned" => stop_event)
    /\ []((pc = "for_head" /\ LoggerIdle /\ (iteration < MaxIter \/ pair_idx <= Len(phien_data)))
             => ENABLED ForHead)
    /\ []((phien_data = << >> /\ pc # "load")
             => pc \in {"for_head", "cleanup", "cleanup_logger", "cleanup_thread",
                        "cleanup_sessions", "exited"})

\* the stop signal was seen in the second pass of "while True", at a pair that
\* is exhausted
C40_Witness ==
    /\ pc = "returned"
    /\ iteration = 2
    /\ pair_idx = 1
    /\ << phien_data[1][1], phien_data[1][2] >> \in slot_full_pairs

====
